---- MODULE Spec2Model ----
(***************************************************************************)
(* State-machine model of the tunetag-annotator session timing and capture *)
(* engine: the App-level clock (useTimer + appState.timerRunning), the     *)
(* Spotify transport bridge, the timeline store of the active track, the   *)
(* mark-entry draft editor, flow mode, and the dictation orchestrator of   *)
(* PhaseListening (useDictation).                                          *)
(*                                                                         *)
(* Text is modelled as a sequence of tokens: the token " " is a run of     *)
(* whitespace, every other token is a word.  Timestamps are modelled as    *)
(* the sequence of characters of the "M:SS" string.                        *)
(***************************************************************************)
EXTENDS Integers, Sequences, FiniteSets, TLC

\* ------------------------------------------------------------------------
\* Program constants
\* ------------------------------------------------------------------------

\* schema.ts: "Hard structural limit from the Excel template. Never exceed."
MAX_TIMELINE_ROWS == 10

\* parseToSeconds returns Number.MAX_SAFE_INTEGER for a string that is no
\* M:SS timestamp; the model uses the largest value of its integers.
MAX_SAFE_INTEGER == 2147483647
NO_SPEECH_SECONDS == 5

\* ------------------------------------------------------------------------
\* Bounds of the model
\* ------------------------------------------------------------------------

\* The clock does not tick past this many seconds.
MaxElapsed == 66

\* At most this many timeline entries are created in one run (uuid counter).
MaxNewEntries == 1

\* The session was resumed with the clock at this many seconds (1:04).
ResumedAt == 64

\* The seek buttons are not used to go further back than this.
SeekFloor == ResumedAt - 10

MaxDictateClicks == 2
MaxCalls == 1
MaxFinalResults == 1
MaxFlowEnds == 1
MaxFlowRecognizers == 2
MaxTracks == 2
MaxUpdates == 4
MaxTokenChanges == 3
MaxTranscriptLen == 6
MinRowsKept == 8
MaxPageLoads == 1

\* ------------------------------------------------------------------------
\* Text: String.prototype.trim
\* ------------------------------------------------------------------------

WS == " "

RECURSIVE TrimStart(_)
TrimStart(s) ==
  IF s # <<>> /\ Head(s) = WS THEN TrimStart(Tail(s)) ELSE s

RECURSIVE TrimEnd(_)
TrimEnd(s) ==
  IF s # <<>> /\ s[Len(s)] = WS THEN TrimEnd(SubSeq(s, 1, Len(s) - 1)) ELSE s

Trim(s) == TrimEnd(TrimStart(s))

\* ------------------------------------------------------------------------
\* Timestamps: formatMSS and parseToSeconds
\* ------------------------------------------------------------------------

DigitChars == <<"0", "1", "2", "3", "4", "5", "6", "7", "8", "9">>

IsDigit(c) == \E d \in 1..10 : DigitChars[d] = c

DigitVal(c) == (CHOOSE d \in 1..10 : DigitChars[d] = c) - 1

\* String(n) for a non-negative integer n
RECURSIVE NumToString(_)
NumToString(n) ==
  IF n < 10 THEN <<DigitChars[n + 1]>>
  ELSE NumToString(n \div 10) \o <<DigitChars[(n % 10) + 1]>>

\* str.padStart(2, '0')
PadStart2(str) ==
  IF Len(str) >= 2 THEN str
  ELSE [i \in 1..(2 - Len(str)) |-> "0"] \o str

\* formatMSS without the zero padding of the seconds
formatMSS_NoPad(totalSeconds) ==
  NumToString(totalSeconds \div 60) \o <<":">> \o NumToString(totalSeconds % 60)

\* formatMSS with minutes and seconds the wrong way round
formatMSS_Swapped(totalSeconds) ==
  NumToString(totalSeconds % 60) \o <<":">> \o PadStart2(NumToString(totalSeconds \div 60))

\* `${m}:${String(s).padStart(2, '0')}` with m = floor(t / 60), s = t % 60
formatMSS(totalSeconds) ==
  NumToString(totalSeconds \div 60) \o <<":">> \o PadStart2(NumToString(totalSeconds % 60))

\* parseInt of a string of digits
RECURSIVE ParseInt(_)
ParseInt(str) ==
  IF str = <<>> THEN 0
  ELSE ParseInt(SubSeq(str, 1, Len(str) - 1)) * 10 + DigitVal(str[Len(str)])

\* /^\d+:[0-5]\d$/
TIMESTAMP_RE(ts) ==
  /\ Len(ts) >= 4
  /\ ts[Len(ts) - 2] = ":"
  /\ \A i \in 1..(Len(ts) - 3) : IsDigit(ts[i])
  /\ ts[Len(ts) - 1] \in {"0", "1", "2", "3", "4", "5"}
  /\ IsDigit(ts[Len(ts)])

parseToSeconds(mss) ==
  IF ~TIMESTAMP_RE(mss) THEN MAX_SAFE_INTEGER
  ELSE ParseInt(SubSeq(mss, 1, Len(mss) - 3)) * 60
       + ParseInt(SubSeq(mss, Len(mss) - 1, Len(mss)))

Min(a, b) == IF a <= b THEN a ELSE b

Max(a, b) == IF a >= b THEN a ELSE b

nudgeTimestamp(ts, deltaSec) ==
  IF parseToSeconds(ts) = MAX_SAFE_INTEGER THEN ts
  ELSE formatMSS(Max(0, parseToSeconds(ts) + deltaSec))

\* ------------------------------------------------------------------------
\* Input universes
\* ------------------------------------------------------------------------

Empty == <<>>
Hello == <<"hello">>
Goodbye == <<"goodbye">>
VocalsEnter == <<"Vocals", WS, "enter">>
Chorus == <<"Chorus">>
Verse == <<"Verse">>
Note == <<"Note">>

\* What the user may type into the narrative textarea
NarrativeInputs == {<<WS>>, Hello, Goodbye, <<WS>> \o VocalsEnter \o <<WS>>}

\* Section chips (SECTION_TYPE_SHORTCUTS) and the custom section field
SectionInputs == {Chorus, <<WS>>}

\* Flow-mode tag buttons (FLOW_TAG_GROUPS)
FlowTags == {Chorus}

\* Nudge buttons of the mark-entry panel
NudgeDeltas == {-1, 1}

\* Text typed into the timestamp field
TypedTimestamps == {<<"0", ":", "5", "9">>, <<"1", ":", "5">>}

\* What the polish service may return
PolishOutputs == {Goodbye}

\* Final transcripts of the flow-mode recognizer
Utterances == {Hello}

\* Seek buttons of flow mode
SeekDeltas == {-10, 10}

\* Seconds of the track a click on the WaveformScrubber may stand for
ScrubTargets == {0, 7, 30}

\* Final and interim texts of the dictation recognizer
SpokenTexts == {Hello}
\* the results one recognition event can deliver: one or two, each final or
\* interim
SpeechResults == [isFinal : BOOLEAN, transcript : {Hello, Goodbye}]
ResultBatches ==
  {<<r>> : r \in SpeechResults} \cup {<<r1, r2>> : r1 \in SpeechResults, r2 \in SpeechResults}

\* SpeechRecognitionErrorEvent.error
RecognitionErrors == {"no-speech", "network", "language-not-supported"}

\* Positions (ms) the Spotify player may report
Positions == {0, 400, 10400, 13000}

\* ------------------------------------------------------------------------
\* State
\* ------------------------------------------------------------------------

VARIABLES
  phase,            \* appState.phase
  elapsedSeconds,   \* useTimer: timer.elapsedSeconds
  isRunning,        \* useTimer: timer.isRunning
  timerRunning,     \* appState.timerRunning
  annElapsed,       \* annotations[activeTrackId].elapsedSeconds
  spIsPlaying,      \* useSpotifyPlayer: isPlaying
  spPosition,       \* useSpotifyPlayer: position (ms)
  spReady,          \* useSpotifyPlayer.isReady
  spCommand,        \* the last command PhaseFlow had for the player, and what became of it
  timeline,         \* annotations[activeTrackId].timeline
  nextId,           \* number of uuids drawn so far, plus one
  status,           \* annotations[activeTrackId].status
  draft,            \* appState.markEntryDraft merged with PhaseMarkEntry's local state
  recordings,       \* App: recordings (in memory)
  dictState,        \* useDictation (PhaseListening): state
  calls,            \* useDictation: the startRecording() invocations and what each closes over
  micStreamRef,     \* useDictation: micStreamRef.current (index into calls, 0 = null)
  mediaRecorderRef, \* useDictation: mediaRecorderRef.current (index into calls, 0 = null)
  recognitionRef,   \* useDictation: recognitionRef.current (index into calls, 0 = null)
  noSpeechTimer,    \* useDictation: noSpeechTimerRef.current is an armed timeout
  savedTimers,      \* number of pending 2 s timeouts set by recorder.onstop
  dictateClicks,    \* history: clicks on the Dictate button so far
  instance,         \* which mount of PhaseListening the useDictation variables above belong to
  deadMicStreamRef, \* micStreamRef.current of each unmounted PhaseListening (by instance)
  openPanelTrigger, \* PhaseListening: openPanelTrigger
  timerAge,         \* seconds since the armed no-speech timeout was set (0 when none is armed)
  silentFor,        \* history: seconds since acquisition or the last committed chunk, up to NO_SPEECH_SECONDS
  savedDevice,      \* localStorage holds a 'beatpulse_mic_device' id
  pageLoads,        \* history: how often the page was loaded again and the session resumed
  smartDictateOn,   \* PhaseFlow: smartDictateOn
  flowRec,          \* PhaseFlow: the recognizer and what its handlers close over
  flowMic,          \* PhaseFlow: the meter's getUserMedia request and its stream
  speechToTextOn,   \* PhaseFlow: speechToTextOn
  flowRecognitionRef, \* PhaseFlow: recognitionRef.current (a slot of flowRecs, 0 = null)
  flowRecs,         \* the recognizers PhaseFlow started and that have not ended yet
  activeTrackId,    \* appState.activeTrackId
  otherAnnotations, \* annotations[t] of every track t other than activeTrackId
  appState,         \* useAnnotationState: appState, as the updates that produced it
  savedOnLoad,      \* useAnnotationState: savedOnLoad.current
  pendingSave,      \* useAnnotationState: pendingSave.current
  saveTimer,        \* useAnnotationState: the state the armed saveTimer will write
  storage,          \* localStorage item 'tunetag_v1'
  token,            \* App: spotifyToken, the token prop of useSpotifyPlayer
  tokenRef,         \* useSpotifyPlayer: tokenRef.current
  effectsPending,   \* a render with a new token is committed and its effects have not run
  sdkReady,         \* window.__spotifySDKReady
  playerCreatedRef, \* useSpotifyPlayer: playerCreatedRef.current
  playersCreated,   \* history: new window.Spotify.Player(...) calls since the page loaded
  tokenChanges      \* history: how often the token changed

clockVars == <<elapsedSeconds, isRunning, timerRunning, annElapsed>>
transportVars == <<spIsPlaying, spPosition, spReady, spCommand>>
trackVars == <<activeTrackId, otherAnnotations>>
storeVars == <<timeline, nextId, status, trackVars>>
mountVars == <<instance, deadMicStreamRef, openPanelTrigger>>
silenceVars == <<timerAge, silentFor>>
saveVars == <<appState, savedOnLoad, pendingSave, saveTimer, storage>>
playerVars == <<token, tokenRef, effectsPending, sdkReady, playerCreatedRef, playersCreated,
                tokenChanges>>
browserVars == <<savedDevice, pageLoads, saveVars, playerVars>>
dictVars == <<dictState, calls, micStreamRef, mediaRecorderRef, recognitionRef,
              noSpeechTimer, savedTimers, dictateClicks, mountVars, silenceVars,
              browserVars>>
flowSpeechVars == <<speechToTextOn, flowRecognitionRef, flowRecs>>
flowVars == <<smartDictateOn, flowRec, flowMic, flowSpeechVars>>
vars == <<phase, clockVars, transportVars, storeVars, draft, recordings, dictVars, flowVars>>

\* getActiveTracks(): the ids of the tracks of the session
TrackIds == 1..MaxTracks

\* useAnnotationState.makeEmptyAnnotation (the fields that are modelled)
EmptyAnnotation == [elapsedSeconds |-> 0, timeline |-> <<>>, status |-> "not_started"]

\* appState.annotations[t]
AnnotationOf(t) ==
  IF t = activeTrackId
  THEN [elapsedSeconds |-> annElapsed, timeline |-> timeline, status |-> status]
  ELSE otherAnnotations[t]

NoDraft == [mode |-> "none"]

\* A TimelineEntry (types: TimelineEntry); tags are not modelled
Entry(id, ts, sectionType, narrative, narrativeRaw, wasPolished, isDictated) ==
  [id |-> id, timestamp |-> ts, sectionType |-> sectionType, narrative |-> narrative,
   narrativeRaw |-> narrativeRaw, wasPolished |-> wasPolished, isDictated |-> isDictated]

\* Array.prototype.sort with the comparator
\*   (a, b) => parseToSeconds(a.timestamp) - parseToSeconds(b.timestamp)
\* The sort is stable: an entry is placed after the entries that compare <= 0.
RECURSIVE InsertByTimestamp(_, _)
InsertByTimestamp(sorted, e) ==
  IF sorted = <<>> THEN <<e>>
  ELSE IF parseToSeconds(sorted[Len(sorted)].timestamp) - parseToSeconds(e.timestamp) <= 0
       THEN Append(sorted, e)
       ELSE Append(InsertByTimestamp(SubSeq(sorted, 1, Len(sorted) - 1), e), sorted[Len(sorted)])

RECURSIVE SortTimeline(_)
SortTimeline(entries) ==
  IF entries = <<>> THEN <<>>
  ELSE InsertByTimestamp(SortTimeline(SubSeq(entries, 1, Len(entries) - 1)), entries[Len(entries)])

\* a capacity check that never finds the timeline full
atCap_Never == FALSE

\* timeline.length >= MAX_TIMELINE_ROWS
atCap == Len(timeline) >= MAX_TIMELINE_ROWS

\* The uuid source still has a fresh id within the bound of the model
FreshIdAvailable == nextId <= MaxNewEntries

\* ------------------------------------------------------------------------
\* Clock (useTimer) and the App effects that follow a handler
\* ------------------------------------------------------------------------

Abs(x) == IF x < 0 THEN -x ELSE x

\* the drift effect with a threshold of two seconds
DriftTarget_Threshold2(r, playing, pos, shown) ==
  IF ~r THEN -1
  ELSE IF ~playing THEN -1
  ELSE IF pos = 0 THEN -1
  ELSE IF Abs((pos \div 1000) - shown) >= 2 THEN pos \div 1000
  ELSE -1

\* the drift effect without its isPlaying guard
DriftTarget_AnyState(r, playing, pos, shown) ==
  IF ~r THEN -1
  ELSE IF pos = 0 THEN -1
  ELSE IF Abs((pos \div 1000) - shown) >= 1 THEN pos \div 1000
  ELSE -1

\* App drift-correction effect, deps [position, isPlaying, timerRunning]:
\* the seconds the effect snaps the timer to, or -1 when it returns early.
\* r, playing, pos are the values of the render the effect belongs to and
\* shown is timer.elapsedSeconds of that render.
DriftTarget(r, playing, pos, shown) ==
  IF ~r THEN -1
  ELSE IF ~playing THEN -1
  ELSE IF pos = 0 THEN -1
  ELSE IF Abs((pos \div 1000) - shown) >= 1 THEN pos \div 1000
  ELSE -1

\* App timer-rehydration effect, deps [activeTrackId, phase, timerRunning]:
\* timer.setSeconds(ann.elapsedSeconds) and timer.start() or timer.pause().
RehydrationRuns(p, r) == p # phase \/ r # timerRunning

\* timer.isRunning once the effects of a handler have run; the handler leaves
\* phase p, timerRunning r and timer.isRunning as `direct`.
RunningAfterEffects(p, r, direct) ==
  IF RehydrationRuns(p, r) THEN (p = "listening" /\ r) ELSE direct

\* timer.elapsedSeconds once the effects of a handler have run; the handler
\* leaves timer.elapsedSeconds as `shown`.  The rehydration effect is declared
\* before the drift effect, so the drift effect's setSeconds is applied last.
ElapsedAfterEffects(p, r, playing, pos, shown) ==
  LET driftRuns == r # timerRunning \/ playing # spIsPlaying \/ pos # spPosition
      target == IF driftRuns THEN DriftTarget(r, playing, pos, shown) ELSE -1
  IN IF target # -1 THEN target
     ELSE IF RehydrationRuns(p, r) THEN annElapsed
     ELSE shown

\* A handler that leaves phase p and appState.timerRunning r, having called
\* timer.start() / timer.pause() so that timer.isRunning is `direct`.
\* `shown` is timer.elapsedSeconds as the handler left it.
AppTransitionAt(p, r, direct, shown) ==
  /\ phase' = p
  /\ timerRunning' = r
  /\ isRunning' = RunningAfterEffects(p, r, direct)
  /\ elapsedSeconds' = ElapsedAfterEffects(p, r, spIsPlaying, spPosition, shown)
  /\ UNCHANGED annElapsed

AppTransition(p, r, direct) == AppTransitionAt(p, r, direct, elapsedSeconds)

\* a ref that keeps the track the session began on
activeTrackIdRef_AtMount == CHOOSE t \in TrackIds : \A u \in TrackIds : t <= u

\* App: activeTrackIdRef.current, assigned on every render
activeTrackIdRef == activeTrackId

\* useTimer: one tick of the 1 Hz interval; onTick persists the new value
\* with updateElapsedSeconds(activeTrackIdRef.current, secs)
Tick ==
  /\ isRunning
  /\ elapsedSeconds < MaxElapsed
  /\ elapsedSeconds' = elapsedSeconds + 1
  /\ IF activeTrackIdRef = activeTrackId
     THEN /\ annElapsed' = elapsedSeconds + 1
          /\ UNCHANGED otherAnnotations
     ELSE /\ otherAnnotations' = [otherAnnotations EXCEPT
                                    ![activeTrackIdRef].elapsedSeconds = elapsedSeconds + 1]
          /\ UNCHANGED annElapsed
  /\ UNCHANGED <<phase, isRunning, timerRunning, transportVars, timeline, nextId, status,
                 activeTrackId, draft, recordings, dictVars, flowVars>>

\* PhaseListening.toggleTimer (the timer button, or Space while isActive)
toggleTimer ==
  /\ phase = "listening"
  /\ IF isRunning THEN AppTransition(phase, FALSE, FALSE)
                  ELSE AppTransition(phase, TRUE, TRUE)
  /\ UNCHANGED <<transportVars, storeVars, draft, recordings, dictVars, flowVars>>

\* useSpotifyPlayer: a poll result or a player_state_changed event sets
\* isPlaying and position; the drift-correction effect follows.
TransportReport(playing, pos) ==
  /\ <<playing, pos>> # <<spIsPlaying, spPosition>>
  /\ spIsPlaying' = playing
  /\ spPosition' = pos
  /\ elapsedSeconds' = ElapsedAfterEffects(phase, timerRunning, playing, pos, elapsedSeconds)
  /\ UNCHANGED <<phase, isRunning, timerRunning, annElapsed, storeVars, draft,
                 recordings, dictVars, flowVars, spReady, spCommand>>

\* useSpotifyPlayer polling: getCurrentState() resolved with null
TransportReportNull ==
  /\ spIsPlaying
  /\ spIsPlaying' = FALSE
  /\ spPosition' = spPosition
  /\ elapsedSeconds' = ElapsedAfterEffects(phase, timerRunning, FALSE, spPosition, elapsedSeconds)
  /\ UNCHANGED <<phase, isRunning, timerRunning, annElapsed, storeVars, draft,
                 recordings, dictVars, flowVars, spReady, spCommand>>

\* ------------------------------------------------------------------------
\* Timeline entries: PhaseListening handlers and PhaseMarkEntry
\* ------------------------------------------------------------------------

\* INITIAL_DICTATION; error is the optional message field, "none" when absent
Idle == [status |-> "idle", transcript |-> Empty, capturedTimestamp |-> <<>>,
         capturedWasRunning |-> FALSE, noSpeechHint |-> FALSE, error |-> "none"]

\* The draft handed to PhaseMarkEntry.  narrativeRawRef is
\* useRef(draft.narrativeRaw || draft.narrative); origin, markedAt and tsEdited
\* record how the draft came about and whether its timestamp was touched.
NewDraft(ts, narrative, wasRunning, dictated, origin) ==
  [mode |-> "new", entryId |-> 0, timestamp |-> ts, sectionType |-> Empty,
   narrative |-> narrative, narrativeRawRef |-> narrative,
   wasTimerRunning |-> wasRunning, isDictated |-> dictated,
   wasPolishedThisSession |-> FALSE, origin |-> origin,
   markedAt |-> elapsedSeconds, tsEdited |-> FALSE]

EditDraft(e, wasRunning) ==
  [mode |-> "edit", entryId |-> e.id, timestamp |-> e.timestamp,
   sectionType |-> e.sectionType, narrative |-> e.narrative,
   narrativeRawRef |-> IF e.narrativeRaw # Empty THEN e.narrativeRaw ELSE e.narrative,
   wasTimerRunning |-> wasRunning, isDictated |-> e.isDictated,
   wasPolishedThisSession |-> FALSE, origin |-> "edit",
   markedAt |-> 0, tsEdited |-> FALSE]

\* PhaseListening.handleMark
handleMark ==
  /\ phase = "listening"
  /\ dictState.status = "idle"
  /\ ~atCap
  /\ draft' = NewDraft(formatMSS(elapsedSeconds), Empty, isRunning, FALSE, "mark")
  /\ AppTransition("mark_entry", FALSE, FALSE)
  /\ UNCHANGED <<transportVars, storeVars, recordings, dictVars, flowVars>>

\* PhaseListening.handleEdit
handleEdit(i) ==
  /\ phase = "listening"
  /\ draft' = EditDraft(timeline[i], isRunning)
  /\ AppTransition("mark_entry", FALSE, FALSE)
  /\ UNCHANGED <<transportVars, storeVars, recordings, dictVars, flowVars>>

\* an updateTimeline that leaves the status of the track alone
updateTimeline_KeepStatus(entries) ==
  /\ timeline' = entries
  /\ status' = status
  /\ UNCHANGED trackVars

\* useAnnotationState.updateTimeline(trackId, entries)
updateTimeline(entries) ==
  /\ timeline' = entries
  /\ status' = IF status = "not_started" THEN "in_progress" ELSE status
  /\ UNCHANGED trackVars

\* PhaseListening.handleDelete (confirmed by the user)
handleDelete(i) ==
  /\ phase = "listening"
  /\ updateTimeline([k \in 1..(Len(timeline) - 1) |->
                      IF k < i THEN timeline[k] ELSE timeline[k + 1]])
  /\ UNCHANGED <<phase, clockVars, transportVars, nextId, draft, recordings,
                 dictVars, flowVars>>

\* PhaseListening.handleUseTranscript, reached from a recording's
\* USE TRANSCRIPT button, which is shown when the transcript is non-empty
handleUseTranscript(r) ==
  /\ phase = "listening"
  /\ recordings[r].transcript # Empty
  /\ draft' = NewDraft(recordings[r].timestamp, recordings[r].transcript,
                       isRunning, TRUE, "transcript")
  /\ AppTransition("mark_entry", FALSE, FALSE)
  /\ UNCHANGED <<transportVars, storeVars, recordings, dictVars, flowVars>>

InMarkEntry == phase = "mark_entry" /\ draft # NoDraft

\* PhaseMarkEntry: typing in the narrative field
setNarrative(text) ==
  /\ InMarkEntry
  /\ draft.narrative # text
  /\ draft' = [draft EXCEPT !.narrative = text]
  /\ UNCHANGED <<phase, clockVars, transportVars, storeVars, recordings, dictVars, flowVars>>

\* PhaseMarkEntry: choosing or typing the section type
setSectionType(text) ==
  /\ InMarkEntry
  /\ draft.sectionType # text
  /\ draft' = [draft EXCEPT !.sectionType = text]
  /\ UNCHANGED <<phase, clockVars, transportVars, storeVars, recordings, dictVars, flowVars>>

\* PhaseMarkEntry.nudge (the -5 -1 +1 +5 buttons)
nudge(delta) ==
  /\ InMarkEntry
  /\ LET next == nudgeTimestamp(draft.timestamp, delta) IN
       /\ next # draft.timestamp
       /\ parseToSeconds(next) \in ResumedAt..MaxElapsed
       /\ draft' = [draft EXCEPT !.timestamp = next, !.tsEdited = TRUE]
  /\ UNCHANGED <<phase, clockVars, transportVars, storeVars, recordings, dictVars, flowVars>>

\* PhaseMarkEntry.handleTsBlur: typed text is taken only if it matches
handleTsBlur(tsRaw) ==
  /\ InMarkEntry
  /\ tsRaw # draft.timestamp
  /\ draft' = IF TIMESTAMP_RE(tsRaw)
              THEN [draft EXCEPT !.timestamp = tsRaw, !.tsEdited = TRUE]
              ELSE draft
  /\ UNCHANGED <<phase, clockVars, transportVars, storeVars, recordings, dictVars, flowVars>>

\* PhaseMarkEntry.acceptPolished, for a polish requested on a non-blank narrative
acceptPolished(polishedText) ==
  /\ InMarkEntry
  /\ Trim(draft.narrative) # Empty
  /\ draft' = [draft EXCEPT !.narrative = polishedText, !.wasPolishedThisSession = TRUE]
  /\ UNCHANGED <<phase, clockVars, transportVars, storeVars, recordings, dictVars, flowVars>>

canSave ==
  /\ Trim(draft.sectionType) # Empty
  /\ Trim(draft.narrative) # Empty
  /\ TIMESTAMP_RE(draft.timestamp)

\* handleSave taking narrativeRaw from the form on every save
SavedEntry_RawFromForm ==
  LET existing == {k \in 1..Len(timeline) : timeline[k].id = draft.entryId}
      existingWasPolished == \E k \in existing : timeline[k].wasPolished
  IN Entry(IF draft.mode = "edit" THEN draft.entryId ELSE nextId,
           draft.timestamp,
           Trim(draft.sectionType),
           Trim(draft.narrative),
           Trim(draft.narrative),
           draft.wasPolishedThisSession \/ existingWasPolished,
           draft.isDictated)

\* the entry handleSave builds from the form
SavedEntry ==
  LET existing == {k \in 1..Len(timeline) : timeline[k].id = draft.entryId}
      existingWasPolished == \E k \in existing : timeline[k].wasPolished
  IN Entry(IF draft.mode = "edit" THEN draft.entryId ELSE nextId,
           draft.timestamp,
           Trim(draft.sectionType),
           Trim(draft.narrative),
           IF draft.narrativeRawRef # Empty THEN draft.narrativeRawRef
                                            ELSE Trim(draft.narrative),
           draft.wasPolishedThisSession \/ existingWasPolished,
           draft.isDictated)

\* PhaseMarkEntry unmounting with a cleanup that always calls onTimerResume
LeaveMarkEntry_AlwaysResume ==
  /\ draft' = NoDraft
  /\ AppTransition("listening", TRUE, TRUE)

\* PhaseMarkEntry unmounting (its cleanup calls onTimerResume when the draft
\* was opened with the timer running) followed by the App effects
LeaveMarkEntry ==
  /\ draft' = NoDraft
  /\ IF draft.wasTimerRunning THEN AppTransition("listening", TRUE, TRUE)
                              ELSE AppTransition("listening", timerRunning, isRunning)

\* PhaseMarkEntry.handleSave
handleSave ==
  /\ InMarkEntry
  /\ canSave
  /\ draft.mode = "new" => FreshIdAvailable
  /\ LET newTimeline ==
           IF draft.mode = "edit"
           THEN [k \in 1..Len(timeline) |->
                   IF timeline[k].id = draft.entryId THEN SavedEntry ELSE timeline[k]]
           ELSE Append(timeline, SavedEntry)
     IN updateTimeline(SortTimeline(newTimeline))
  /\ nextId' = IF draft.mode = "edit" THEN nextId ELSE nextId + 1
  /\ LeaveMarkEntry
  /\ UNCHANGED <<transportVars, recordings, dictVars, flowVars>>

\* PhaseMarkEntry.handleDiscard (confirmed by the user when text was typed)
handleDiscard ==
  /\ InMarkEntry
  /\ LeaveMarkEntry
  /\ UNCHANGED <<transportVars, storeVars, recordings, dictVars, flowVars>>

\* ------------------------------------------------------------------------
\* Flow mode (PhaseFlow)
\* ------------------------------------------------------------------------

NoRec == [state |-> "none"]

\* The recognizers of the mounted PhaseFlow, one per slot.  A recognizer's
\* handlers close over the toggles of the render whose startRecognition
\* created it.
FlowSlots == 1..MaxFlowRecognizers

NoRecognizer == [state |-> "none", smartDictateOn |-> FALSE, speechToTextOn |-> FALSE]

NoFlowRecs == [k \in FlowSlots |-> NoRecognizer]

HasFreeSlot(recs) == \E k \in FlowSlots : recs[k].state = "none"

FreeSlot(recs) ==
  CHOOSE k \in FlowSlots :
    recs[k].state = "none" /\ \A j \in 1..(k - 1) : recs[j].state # "none"

\* PhaseFlow.startRecognition of a render with the given toggles: nothing if
\* recognitionRef.current is set, else a new recognizer is created, kept in
\* the ref and started
startRecognition(recs, ref, smartOn, speechOn) ==
  IF ref # 0 THEN [recs |-> recs, ref |-> ref]
  ELSE [recs |-> [recs EXCEPT ![FreeSlot(recs)] =
                    [state |-> "active", smartDictateOn |-> smartOn,
                     speechToTextOn |-> speechOn]],
        ref |-> FreeSlot(recs)]

\* PhaseFlow.stopRecognition: stop() on the recognizer in the ref, ref := null
stopRecognition(recs, ref) ==
  IF ref # 0
  THEN [recs |-> [recs EXCEPT ![ref].state = IF @ = "active" THEN "stopping" ELSE @],
        ref |-> 0]
  ELSE [recs |-> recs, ref |-> ref]

\* PhaseFlow's effect on [smartDictateOn, speechToTextOn]
TogglesEffect(recs, ref, smartOn, speechOn) ==
  IF smartOn \/ speechOn THEN startRecognition(recs, ref, smartOn, speechOn)
  ELSE stopRecognition(recs, ref)

\* PhaseFlow.handleTagTap: append an entry stamped with the clock, as is
handleTagTap(tagName) ==
  /\ phase = "flow"
  /\ FreshIdAvailable
  /\ updateTimeline(Append(timeline,
                           Entry(nextId, formatMSS(elapsedSeconds), tagName,
                                 Empty, Empty, FALSE, FALSE)))
  /\ nextId' = nextId + 1
  /\ UNCHANGED <<phase, clockVars, transportVars, draft, recordings, dictVars, flowVars>>

\* flowRec follows the recognizer in slot k: the one started last with Smart
\* Dictate on in its closure
Followed(k) == flowRec.state = "active" /\ flowRec.slot = k

\* PhaseFlow: the Smart Dictate toggle and the effect that starts or stops the
\* recognizer.  startRecognition's handlers close over the elapsed seconds and
\* the timeline of the render that created them.
toggleSmartDictate ==
  /\ phase = "flow"
  /\ (~smartDictateOn /\ flowRecognitionRef = 0) => HasFreeSlot(flowRecs)
  /\ smartDictateOn' = ~smartDictateOn
  /\ LET next == TogglesEffect(flowRecs, flowRecognitionRef, ~smartDictateOn, speechToTextOn)
     IN /\ flowRecs' = next.recs
        /\ flowRecognitionRef' = next.ref
  /\ flowRec' = IF ~smartDictateOn /\ flowRecognitionRef = 0
                THEN [state |-> "active", elapsedSeconds |-> elapsedSeconds,
                      timeline |-> timeline, starts |-> 1, ends |-> 0,
                      slot |-> FreeSlot(flowRecs)]
                ELSE IF smartDictateOn /\ ~speechToTextOn /\ Followed(flowRecognitionRef)
                THEN NoRec
                ELSE flowRec
  /\ UNCHANGED <<phase, clockVars, transportVars, storeVars, draft, recordings, dictVars,
                 flowMic, speechToTextOn>>

\* PhaseFlow: the Speech-to-Text toggle and the same effect.  A recognizer it
\* starts has closed over smartDictateOn as it is, so its results are
\* appended to the timeline only if Smart Dictate is on already, which is the
\* case only if recognitionRef was cleared in between.
toggleSpeechToText ==
  /\ phase = "flow"
  /\ (~speechToTextOn /\ flowRecognitionRef = 0) => HasFreeSlot(flowRecs)
  /\ speechToTextOn' = ~speechToTextOn
  /\ LET next == TogglesEffect(flowRecs, flowRecognitionRef, smartDictateOn, ~speechToTextOn)
     IN /\ flowRecs' = next.recs
        /\ flowRecognitionRef' = next.ref
  /\ flowRec' = IF ~speechToTextOn /\ flowRecognitionRef = 0 /\ smartDictateOn
                THEN [state |-> "active", elapsedSeconds |-> elapsedSeconds,
                      timeline |-> timeline, starts |-> 1, ends |-> 0,
                      slot |-> FreeSlot(flowRecs)]
                ELSE IF speechToTextOn /\ ~smartDictateOn /\ Followed(flowRecognitionRef)
                THEN NoRec
                ELSE flowRec
  /\ UNCHANGED <<phase, clockVars, transportVars, storeVars, draft, recordings, dictVars,
                 flowMic, smartDictateOn>>

\* PhaseFlow recognizer onresult with a final transcript, Smart Dictate on:
\* the entry is appended to the timeline the handler closed over
flowResult(text) ==
  /\ phase = "flow"
  /\ flowRec.state = "active"
  /\ FreshIdAvailable
  /\ updateTimeline(Append(flowRec.timeline,
                           Entry(nextId, formatMSS(flowRec.elapsedSeconds), Note,
                                 text, text, FALSE, TRUE)))
  /\ nextId' = nextId + 1
  /\ UNCHANGED <<phase, clockVars, transportVars, draft, recordings, dictVars, flowVars>>

\* rec.onend that does not start a new recognizer
flowOnend_NoRestart ==
  /\ phase = "flow"
  /\ flowRec.state = "active"
  /\ flowRec.ends < MaxFlowEnds
  /\ flowRec' = [flowRec EXCEPT !.state = "ended", !.ends = @ + 1]
  /\ flowRecs' = [flowRecs EXCEPT ![flowRec.slot] = NoRecognizer]
  /\ flowRecognitionRef' = 0
  /\ UNCHANGED <<phase, clockVars, transportVars, storeVars, draft, recordings, dictVars,
                 smartDictateOn, flowMic, speechToTextOn>>

\* what rec.onend of the recognizer in slot k leaves: the recognizer is gone,
\* recognitionRef.current is null whichever recognizer it held, and since the
\* handler's smartDictateOn or speechToTextOn is true, the startRecognition it
\* closed over runs and starts a recognizer with the same closure
AfterOnend(k) ==
  startRecognition([flowRecs EXCEPT ![k] = NoRecognizer], 0,
                   flowRecs[k].smartDictateOn, flowRecs[k].speechToTextOn)

\* PhaseFlow rec.onend while the recognizer listens (the platform ended it):
\* recognitionRef is cleared and, the handler's smartDictateOn being true,
\* startRecognition runs again: the one the handler closed over, so the new
\* recognizer's handlers see the same elapsed seconds and timeline.  starts
\* and ends count the recognizers started and the end events handled.
flowOnend ==
  /\ phase = "flow"
  /\ flowRec.state = "active"
  /\ flowRec.ends < MaxFlowEnds
  /\ flowRec' = [flowRec EXCEPT !.starts = @ + 1, !.ends = @ + 1,
                                !.slot = AfterOnend(flowRec.slot).ref]
  /\ flowRecs' = AfterOnend(flowRec.slot).recs
  /\ flowRecognitionRef' = AfterOnend(flowRec.slot).ref
  /\ UNCHANGED <<phase, clockVars, transportVars, storeVars, draft, recordings, dictVars,
                 smartDictateOn, flowMic, speechToTextOn>>

\* PhaseFlow rec.onend of any other recognizer: one that stopRecognition
\* stopped, one started with Smart Dictate off, or one started by such an end
\* event.  What the recognizer it starts does with its results is not
\* followed.
flowOnendStopped(k) ==
  /\ phase = "flow"
  /\ ~Followed(k)
  /\ flowRecs[k].state \in {"active", "stopping"}
  /\ flowRecs' = AfterOnend(k).recs
  /\ flowRecognitionRef' = AfterOnend(k).ref
  /\ UNCHANGED <<phase, clockVars, transportVars, storeVars, draft, recordings, dictVars,
                 smartDictateOn, flowRec, flowMic, speechToTextOn>>

\* no command was given to the player yet
NoCommand == [op |-> "none", ms |-> 0, state |-> "none", seq |-> 0]

\* PhaseFlow's helpers call the player only if it isReady; the promise of a
\* call is pending until the player settles it.  seq tells one command from
\* the next.
SendCommand(op, ms) ==
  [op |-> op, ms |-> ms, state |-> IF spReady THEN "pending" ELSE "dropped",
   seq |-> 1 - spCommand.seq]

spotifyPlay == SendCommand("play", 0)
spotifyPause == SendCommand("pause", 0)

\* a seek helper that hands the player seconds
spotifySeekMs_Seconds(ms) == SendCommand("seek", Max(0, ms) \div 1000)

\* spotifyPlayer.seek(Math.max(0, ms))
spotifySeekMs(ms) == SendCommand("seek", Max(0, ms))

\* PhaseFlow.handlePlayPause
handlePlayPause ==
  /\ phase = "flow"
  /\ IF isRunning THEN AppTransition(phase, FALSE, FALSE) /\ spCommand' = spotifyPause
                  ELSE AppTransition(phase, TRUE, TRUE) /\ spCommand' = spotifyPlay
  /\ UNCHANGED <<spIsPlaying, spPosition, spReady, storeVars, draft, recordings,
                 dictVars, flowVars>>

\* PhaseFlow.handleSeek (the -10 / +10 buttons), used down to `floor` seconds:
\* timerSeek is timer.setSeconds
handleSeekFrom(deltaSecs, floor) ==
  /\ phase = "flow"
  /\ LET next == Max(0, elapsedSeconds + deltaSecs) IN
       /\ next \in floor..MaxElapsed
       /\ next # elapsedSeconds
       /\ IF isRunning THEN AppTransitionAt(phase, TRUE, TRUE, next)
                       ELSE AppTransitionAt(phase, timerRunning, isRunning, next)
       /\ spCommand' = spotifySeekMs(next * 1000)
  /\ UNCHANGED <<spIsPlaying, spPosition, spReady, storeVars, draft, recordings,
                 dictVars, flowVars>>

handleSeek(deltaSecs) == handleSeekFrom(deltaSecs, SeekFloor)

\* PhaseFlow's onSeek of the WaveformScrubber: a click at `secs` of the track
onSeek(secs) ==
  /\ phase = "flow"
  /\ secs # elapsedSeconds
  /\ IF isRunning THEN AppTransitionAt(phase, TRUE, TRUE, secs)
                  ELSE AppTransitionAt(phase, timerRunning, isRunning, secs)
  /\ spCommand' = spotifySeekMs(secs * 1000)
  /\ UNCHANGED <<spIsPlaying, spPosition, spReady, storeVars, draft, recordings,
                 dictVars, flowVars>>

\* useSpotifyPlayer: the SDK's 'ready' and 'not_ready' events set isReady
playerReady(ready) ==
  /\ spReady # ready
  /\ spReady' = ready
  /\ UNCHANGED <<phase, clockVars, spIsPlaying, spPosition, spCommand, storeVars, draft,
                 recordings, dictVars, flowVars>>

\* a rejected command that stops the clock and shows an error card
commandSettles_Throws(ok) ==
  /\ spCommand.state = "pending"
  /\ spCommand' = [spCommand EXCEPT !.state = IF ok THEN "resolved" ELSE "rejected"]
  /\ isRunning' = (ok /\ isRunning)
  /\ dictState' = IF ok THEN dictState ELSE [dictState EXCEPT !.status = "error"]
  /\ UNCHANGED <<phase, elapsedSeconds, timerRunning, annElapsed, spIsPlaying, spPosition,
                 spReady, storeVars, draft, recordings, calls, micStreamRef,
                 mediaRecorderRef, recognitionRef, noSpeechTimer, savedTimers,
                 dictateClicks, mountVars, silenceVars, browserVars, flowVars>>

\* the player settles the pending command: its promise resolves, or it
\* rejects and .catch(() => {}) takes the rejection
commandSettles(ok) ==
  /\ spCommand.state = "pending"
  /\ spCommand' = [spCommand EXCEPT !.state = IF ok THEN "resolved" ELSE "rejected"]
  /\ UNCHANGED <<phase, clockVars, spIsPlaying, spPosition, spReady, storeVars, draft,
                 recordings, dictVars, flowVars>>

\* PhaseFlow "EXIT FLOW MODE": timerPause(); setPhase('listening'); the
\* unmount cleanups stop the recognizer and the meter's stream, and the
\* toggles go with the component; the recognizers of the unmounted PhaseFlow
\* are not followed further
exitFlow ==
  /\ phase = "flow"
  /\ smartDictateOn' = FALSE
  /\ flowRec' = NoRec
  /\ flowMic' = "none"
  /\ speechToTextOn' = FALSE
  /\ flowRecognitionRef' = 0
  /\ flowRecs' = NoFlowRecs
  /\ AppTransition("listening", FALSE, FALSE)
  /\ UNCHANGED <<transportVars, storeVars, draft, recordings, dictVars>>

\* ------------------------------------------------------------------------
\* Dictation (useDictation in PhaseListening)
\* ------------------------------------------------------------------------

\* One startRecording() invocation: the stream it acquired, its MediaRecorder,
\* its SpeechRecognition and the locals its handlers close over.  The fields
\* fatalWhileRecording, cancelled, tornDown, stopped and onstopRuns are history:
\* a fatal recognition error arrived while the recorder was recording, cancel()
\* stopped this recorder, the unmount cleanup stopped this recorder,
\* stopRecording() stopped this recorder (transcriptAtStop: the trimmed
\* finalTranscript at that moment), the statuses recorder.onstop set in its
\* mounted component, in order, the error code the recognizer reported, and
\* how often recorder.onstop ran.  inst is the PhaseListening mount that made the call.
\* savedDeviceId: the call read a saved device id and asked for exactly that
\* device; deviceGone (history): that request was rejected with
\* OverconstrainedError.
NewCall ==
  [stage |-> "acquiring", capturedTs |-> dictState.capturedTimestamp,
   stream |-> "none", recorder |-> "none", onstop |-> FALSE, recog |-> "none",
   finalTranscript |-> Empty, finalTranscriptSnapshot |-> Empty,
   fatalWhileRecording |-> FALSE, cancelled |-> FALSE, tornDown |-> FALSE,
   stopped |-> FALSE, transcriptAtStop |-> Empty,
   onstopStatuses |-> <<>>, lastError |-> "none", onstopRuns |-> 0, inst |-> instance,
   savedDeviceId |-> savedDevice, deviceGone |-> FALSE]

CallIds == 1..Len(calls)

\* startRecording() invocation c was made by the PhaseListening now mounted
\* (or, in flow mode, by none: its setState calls then change nothing)
Current(c) == calls[c].inst = instance

\* recognition.stop() on the recognizer a ref points to (0 = null)
StopRecognizer(cs, ref) ==
  IF ref # 0 /\ cs[ref].recog = "active" THEN [cs EXCEPT ![ref].recog = "stopping"] ELSE cs

\* stream.getTracks().forEach(t => t.stop()) on the stream a ref points to
StopStream(cs, ref) ==
  IF ref # 0 THEN [cs EXCEPT ![ref].stream = "stopped"] ELSE cs

\* recorder.stop() that always detaches onstop first
StopRecorder_AlwaysDetach(cs, ref, detach) ==
  IF ref # 0 /\ cs[ref].recorder = "recording"
  THEN [cs EXCEPT ![ref].recorder = "stopping",
                  ![ref].onstop = FALSE,
                  ![ref].cancelled = IF detach THEN TRUE ELSE @]
  ELSE cs

\* recorder.stop() that never detaches onstop
StopRecorder_KeepOnstop(cs, ref, detach) ==
  IF ref # 0 /\ cs[ref].recorder = "recording"
  THEN [cs EXCEPT ![ref].recorder = "stopping",
                  ![ref].cancelled = IF detach THEN TRUE ELSE @]
  ELSE cs

\* recorder.stop() when the ref is set and the recorder is not 'inactive';
\* detach says whether onstop is set to null first
StopRecorder(cs, ref, detach) ==
  IF ref # 0 /\ cs[ref].recorder = "recording"
  THEN [cs EXCEPT ![ref].recorder = "stopping",
                  ![ref].onstop = IF detach THEN FALSE ELSE @,
                  ![ref].cancelled = IF detach THEN TRUE ELSE @]
  ELSE cs

\* history: stopRecording() finds the recorder a ref points to recording
MarkStopped(cs, ref) ==
  IF ref # 0 /\ cs[ref].recorder = "recording"
  THEN [cs EXCEPT ![ref].stopped = TRUE,
                  ![ref].transcriptAtStop = Trim(cs[ref].finalTranscript)]
  ELSE cs

\* history: the unmount cleanup finds the recorder a ref points to recording
MarkTornDown(cs, ref) ==
  IF ref # 0 /\ cs[ref].recorder = "recording" THEN [cs EXCEPT ![ref].tornDown = TRUE] ELSE cs

\* handleDictateClick without its check of the dictation status
handleDictateClick_NoStatusCheck ==
  /\ phase = "listening"
  /\ dictateClicks < MaxDictateClicks
  /\ dictateClicks' = dictateClicks + 1
  /\ IF atCap
     THEN UNCHANGED <<phase, clockVars, dictState, noSpeechTimer, timerAge>>
     ELSE /\ dictState' = [Idle EXCEPT !.status = "awaiting_manual_pause",
                                       !.capturedTimestamp = formatMSS(elapsedSeconds),
                                       !.capturedWasRunning = isRunning]
          /\ noSpeechTimer' = FALSE
          /\ timerAge' = 0
          /\ AppTransition(phase, FALSE, FALSE)
  /\ UNCHANGED <<transportVars, storeVars, draft, recordings, calls, micStreamRef,
                 mediaRecorderRef, recognitionRef, savedTimers, mountVars, flowVars, browserVars>>
  /\ UNCHANGED silentFor

\* PhaseListening.handleDictateClick and useDictation.begin; dictateClicks
\* counts the clicks, rejected ones included
handleDictateClick ==
  /\ phase = "listening"
  /\ dictateClicks < MaxDictateClicks
  /\ dictateClicks' = dictateClicks + 1
  /\ IF atCap \/ dictState.status # "idle"
     THEN UNCHANGED <<phase, clockVars, dictState, noSpeechTimer, timerAge>>
     ELSE /\ dictState' = [Idle EXCEPT !.status = "awaiting_manual_pause",
                                       !.capturedTimestamp = formatMSS(elapsedSeconds),
                                       !.capturedWasRunning = isRunning]
          /\ noSpeechTimer' = FALSE
          /\ timerAge' = 0
          /\ AppTransition(phase, FALSE, FALSE)
  /\ UNCHANGED <<transportVars, storeVars, draft, recordings, calls, micStreamRef,
                 mediaRecorderRef, recognitionRef, savedTimers, mountVars, flowVars, browserVars>>
  /\ UNCHANGED silentFor

\* useDictation.startRecording up to its await of getUserMedia
startRecording ==
  /\ phase = "listening"
  /\ dictState.status = "awaiting_manual_pause"
  /\ Len(calls) < MaxCalls
  /\ calls' = Append(calls, NewCall)
  /\ UNCHANGED <<phase, clockVars, transportVars, storeVars, draft, recordings,
                 dictState, micStreamRef, mediaRecorderRef, recognitionRef,
                 noSpeechTimer, savedTimers, dictateClicks, mountVars, flowVars>>
  /\ UNCHANGED <<silenceVars, browserVars>>

\* getUserMedia resolved: the rest of startRecording.  The refs and the state
\* it writes are those of the PhaseListening that made the call, mounted or not.
acquireOk(c) ==
  /\ calls[c].stage \in {"acquiring", "retrying"}
  /\ calls' = [calls EXCEPT ![c].stage = "started", ![c].stream = "live",
                            ![c].recorder = "recording", ![c].onstop = TRUE,
                            ![c].recog = "active"]
  /\ IF Current(c)
     THEN /\ micStreamRef' = c
          /\ mediaRecorderRef' = c
          /\ recognitionRef' = c
          /\ dictState' = [dictState EXCEPT !.status = "recording", !.transcript = Empty,
                                            !.noSpeechHint = FALSE]
          /\ noSpeechTimer' = TRUE
          /\ timerAge' = 0
          /\ silentFor' = 0
          /\ UNCHANGED deadMicStreamRef
     ELSE /\ deadMicStreamRef' = [deadMicStreamRef EXCEPT ![calls[c].inst] = c]
          /\ UNCHANGED <<micStreamRef, mediaRecorderRef, recognitionRef, dictState,
                         noSpeechTimer, silenceVars>>
  /\ UNCHANGED <<phase, clockVars, transportVars, storeVars, draft, recordings,
                 savedTimers, dictateClicks, instance, openPanelTrigger, flowVars, browserVars>>

\* the message startRecording shows when getUserMedia rejects
acquireErrorMessage(isDenied) ==
  IF isDenied THEN "Microphone access denied. Click the lock icon in the address bar and allow microphone access, then try again."
              ELSE "Could not access the microphone. Make sure a microphone is connected."

\* getUserMedia({deviceId: {exact: saved}}) rejected with OverconstrainedError
\* and startRecording gives up with the error card, keeping the saved id
acquireOverconstrained_Fail(c) ==
  /\ calls[c].stage = "acquiring"
  /\ calls[c].savedDeviceId
  /\ calls' = [calls EXCEPT ![c].stage = "failed", ![c].deviceGone = TRUE]
  /\ dictState' = IF Current(c)
                  THEN [dictState EXCEPT !.status = "error",
                                         !.error = acquireErrorMessage(FALSE)]
                  ELSE dictState
  /\ UNCHANGED <<phase, clockVars, transportVars, storeVars, draft, recordings,
                 micStreamRef, mediaRecorderRef, recognitionRef, noSpeechTimer,
                 savedTimers, dictateClicks, mountVars, flowVars>>
  /\ UNCHANGED <<silenceVars, browserVars>>

\* getUserMedia({deviceId: {exact: saved}}) rejected with OverconstrainedError:
\* the saved id is removed from localStorage and getUserMedia({audio: true})
\* is awaited
acquireOverconstrained(c) ==
  /\ calls[c].stage = "acquiring"
  /\ calls[c].savedDeviceId
  /\ calls' = [calls EXCEPT ![c].stage = "retrying", ![c].deviceGone = TRUE]
  /\ savedDevice' = FALSE
  /\ UNCHANGED <<phase, clockVars, transportVars, storeVars, draft, recordings,
                 dictState, micStreamRef, mediaRecorderRef, recognitionRef,
                 noSpeechTimer, savedTimers, dictateClicks, mountVars, flowVars>>
  /\ UNCHANGED <<silenceVars, pageLoads, saveVars, playerVars>>

\* getUserMedia rejected and startRecording returns without a word
acquireFail_Silent(c, isDenied) ==
  /\ calls[c].stage \in {"acquiring", "retrying"}
  /\ calls' = [calls EXCEPT ![c].stage = "failed"]
  /\ UNCHANGED <<phase, clockVars, transportVars, storeVars, draft, recordings,
                 dictState, micStreamRef, mediaRecorderRef, recognitionRef,
                 noSpeechTimer, savedTimers, dictateClicks, mountVars, flowVars>>
  /\ UNCHANGED <<silenceVars, browserVars>>

\* getUserMedia rejected (with no saved device, or again on the fallback)
acquireFail(c, isDenied) ==
  /\ calls[c].stage \in {"acquiring", "retrying"}
  /\ calls' = [calls EXCEPT ![c].stage = "failed"]
  /\ dictState' = IF Current(c)
                  THEN [dictState EXCEPT !.status = "error",
                                         !.error = acquireErrorMessage(isDenied)]
                  ELSE dictState
  /\ UNCHANGED <<phase, clockVars, transportVars, storeVars, draft, recordings,
                 micStreamRef, mediaRecorderRef, recognitionRef, noSpeechTimer,
                 savedTimers, dictateClicks, mountVars, flowVars>>
  /\ UNCHANGED <<silenceVars, browserVars>>

\* the 5 s no-speech timeout set by startRecording fires, once the rest of
\* its 5 s has passed
noSpeechTimeout ==
  /\ noSpeechTimer
  /\ noSpeechTimer' = FALSE
  /\ dictState' = IF dictState.status = "recording" /\ dictState.transcript = Empty
                  THEN [dictState EXCEPT !.noSpeechHint = TRUE]
                  ELSE dictState
  /\ UNCHANGED <<phase, clockVars, transportVars, storeVars, draft, recordings, calls,
                 micStreamRef, mediaRecorderRef, recognitionRef, savedTimers,
                 dictateClicks, mountVars, flowVars, browserVars>>
  /\ timerAge' = 0
  /\ silentFor' = Min(NO_SPEECH_SECONDS, silentFor + (NO_SPEECH_SECONDS - timerAge))

\* One second passes on the recording card.  An armed timeout whose 5 s are
\* up fires before more time passes.
secondPasses ==
  /\ dictState.status = "recording"
  /\ ~(noSpeechTimer /\ timerAge = NO_SPEECH_SECONDS)
  /\ noSpeechTimer \/ silentFor < NO_SPEECH_SECONDS
  /\ timerAge' = IF noSpeechTimer THEN timerAge + 1 ELSE 0
  /\ silentFor' = Min(NO_SPEECH_SECONDS, silentFor + 1)
  /\ UNCHANGED <<phase, clockVars, transportVars, storeVars, draft, recordings,
                 dictState, calls, micStreamRef, mediaRecorderRef, recognitionRef,
                 noSpeechTimer, savedTimers, dictateClicks, mountVars, flowVars, browserVars>>

\* the loop of recognition.onresult that puts each final result before what
\* was committed so far
RECURSIVE ProcessResults_Prepend(_, _, _)
ProcessResults_Prepend(results, final, interim) ==
  IF results = <<>> THEN [final |-> final, interim |-> interim]
  ELSE LET r == Head(results) IN
         IF r.isFinal
         THEN ProcessResults_Prepend(Tail(results), r.transcript \o <<WS>> \o final, interim)
         ELSE ProcessResults_Prepend(Tail(results), final, interim \o r.transcript)

\* the loop of recognition.onresult over event.results from event.resultIndex
\* on: a final result is appended, with a space, to finalTranscript; the
\* others make up the interim text
RECURSIVE ProcessResults(_, _, _)
ProcessResults(results, final, interim) ==
  IF results = <<>> THEN [final |-> final, interim |-> interim]
  ELSE LET r == Head(results) IN
         IF r.isFinal
         THEN ProcessResults(Tail(results), final \o r.transcript \o <<WS>>, interim)
         ELSE ProcessResults(Tail(results), final, interim \o r.transcript)

\* recognition.onresult for an event that delivers the given results; cap
\* bounds the length of finalTranscript at which results still arrive
onresultEvent(c, results, cap) ==
  /\ calls[c].recog \in {"active", "stopping"}
  /\ Len(calls[c].finalTranscript) < cap
  /\ LET done == ProcessResults(results, calls[c].finalTranscript, Empty)
     IN /\ calls' = [calls EXCEPT ![c].finalTranscript = done.final,
                                  ![c].finalTranscriptSnapshot = Trim(done.final)]
        /\ dictState' = IF Current(c)
                        THEN [dictState EXCEPT !.transcript = Trim(done.final \o done.interim),
                                               !.noSpeechHint = FALSE]
                        ELSE dictState
        /\ silentFor' = IF Current(c) /\ done.final # calls[c].finalTranscript
                        THEN 0 ELSE silentFor
  /\ noSpeechTimer' = IF Current(c) THEN FALSE ELSE noSpeechTimer
  /\ timerAge' = IF Current(c) THEN 0 ELSE timerAge
  /\ UNCHANGED <<phase, clockVars, transportVars, storeVars, draft, recordings,
                 micStreamRef, mediaRecorderRef, recognitionRef, savedTimers,
                 dictateClicks, mountVars, flowVars, browserVars>>

\* recognition.onresult with one result, final or interim
onresult(c, isFinal, text) ==
  onresultEvent(c, <<[isFinal |-> isFinal, transcript |-> text]>>, 2 * MaxFinalResults)

\* speechErrorMessages[event.error], with no fallback for other codes
speechErrorMessage_KnownOnly(error) ==
  CASE error = "network" -> "Network error - open the app on https://localhost:5173 (not http://)."
    [] error = "not-allowed" -> "Microphone access denied. Click the lock icon in the address bar."
    [] error = "aborted" -> "Recording was cancelled."
    [] error = "audio-capture" -> "No microphone found."
    [] error = "service-not-allowed" -> "Speech service not allowed. Make sure you are on https://."
    [] OTHER -> "none"

\* speechErrorMessages[event.error] ?? `Recording error: ${event.error}`
speechErrorMessage(error) ==
  CASE error = "network" -> "Network error - open the app on https://localhost:5173 (not http://)."
    [] error = "not-allowed" -> "Microphone access denied. Click the lock icon in the address bar."
    [] error = "aborted" -> "Recording was cancelled."
    [] error = "audio-capture" -> "No microphone found."
    [] error = "service-not-allowed" -> "Speech service not allowed. Make sure you are on https://."
    [] OTHER -> "Recording error: " \o error

\* recognition.onerror, while the recognizer listens or after stop() while it
\* still fetches its last result; the recognizer's end event follows
onerror(c, error) ==
  /\ calls[c].recog \in {"active", "stopping"}
  /\ calls' = [calls EXCEPT ![c].recog = "failed",
                            ![c].lastError = error,
                            ![c].fatalWhileRecording =
                               @ \/ (error # "no-speech" /\ calls[c].recorder = "recording")]
  /\ recognitionRef' = IF Current(c) THEN 0 ELSE recognitionRef
  /\ dictState' = IF ~Current(c) THEN dictState
                  ELSE IF error = "no-speech"
                  THEN IF dictState.status = "recording"
                       THEN [dictState EXCEPT !.noSpeechHint = TRUE]
                       ELSE dictState
                  ELSE [dictState EXCEPT !.status = "error",
                                         !.error = speechErrorMessage(error)]
  /\ UNCHANGED <<phase, clockVars, transportVars, storeVars, draft, recordings,
                 micStreamRef, mediaRecorderRef, noSpeechTimer, savedTimers,
                 dictateClicks, mountVars, flowVars>>
  /\ UNCHANGED <<silenceVars, browserVars>>

\* recognition.onend
onend(c) ==
  /\ calls[c].recog \in {"active", "stopping", "failed"}
  /\ calls' = [calls EXCEPT ![c].recog = "ended"]
  /\ recognitionRef' = IF Current(c) THEN 0 ELSE recognitionRef
  /\ dictState' = IF Current(c) /\ dictState.status = "recording"
                  THEN [dictState EXCEPT !.transcript = Trim(calls[c].finalTranscript)]
                  ELSE dictState
  /\ UNCHANGED <<phase, clockVars, transportVars, storeVars, draft, recordings,
                 micStreamRef, mediaRecorderRef, noSpeechTimer, savedTimers,
                 dictateClicks, mountVars, flowVars>>
  /\ UNCHANGED <<silenceVars, browserVars>>

\* useDictation.stopRecording (the Stop Recording button of the recording
\* card); a click that finds the timer and both refs already cleared changes
\* nothing and is left out
stopRecording ==
  /\ phase = "listening"
  /\ dictState.status = "recording"
  /\ mediaRecorderRef # 0 \/ recognitionRef # 0 \/ noSpeechTimer
  /\ noSpeechTimer' = FALSE
  /\ calls' = StopRecorder(StopRecognizer(MarkStopped(calls, mediaRecorderRef),
                                          recognitionRef), mediaRecorderRef, FALSE)
  /\ recognitionRef' = 0
  /\ mediaRecorderRef' = 0
  /\ UNCHANGED <<phase, clockVars, transportVars, storeVars, draft, recordings,
                 dictState, micStreamRef, savedTimers, dictateClicks, mountVars, flowVars, browserVars>>
  /\ timerAge' = 0
  /\ UNCHANGED silentFor

\* a RecordingEntry with the transcript the overlay displays
RecordingEntryOf_Displayed(c) ==
  [call |-> c, timestamp |-> calls[c].capturedTs, transcript |-> dictState.transcript]

\* onRecordingReady(blob, mimeType, capturedTs, finalTranscriptSnapshot): the
\* RecordingEntry App adds (audio not modelled; call is history)
RecordingEntryOf(c) ==
  [call |-> c, timestamp |-> calls[c].capturedTs,
   transcript |-> calls[c].finalTranscriptSnapshot]

\* the recorder's stop event: recorder.onstop, unless it was detached.  Run for
\* an unmounted PhaseListening, its setState calls and its timeout change
\* nothing, but onRecordingReady still reaches App.
recorderStopped(c) ==
  /\ calls[c].recorder = "stopping"
  /\ IF ~calls[c].onstop
     THEN /\ calls' = [calls EXCEPT ![c].recorder = "inactive"]
          /\ UNCHANGED <<micStreamRef, deadMicStreamRef, recordings, dictState, savedTimers>>
     ELSE /\ recordings' = Append(recordings, RecordingEntryOf(c))
          /\ IF Current(c)
             THEN /\ calls' = [StopStream(calls, micStreamRef) EXCEPT
                                 ![c].recorder = "inactive", ![c].onstopRuns = @ + 1,
                                 ![c].onstopStatuses = <<"finalizing", "audio_saved">>]
                  /\ micStreamRef' = 0
                  /\ dictState' = [dictState EXCEPT !.status = "audio_saved"]
                  /\ savedTimers' = savedTimers + 1
                  /\ UNCHANGED deadMicStreamRef
             ELSE /\ calls' = [StopStream(calls, deadMicStreamRef[calls[c].inst]) EXCEPT
                                 ![c].recorder = "inactive", ![c].onstopRuns = @ + 1]
                  /\ deadMicStreamRef' = [deadMicStreamRef EXCEPT ![calls[c].inst] = 0]
                  /\ UNCHANGED <<micStreamRef, dictState, savedTimers>>
  /\ UNCHANGED <<phase, clockVars, transportVars, storeVars, draft, mediaRecorderRef,
                 recognitionRef, noSpeechTimer, dictateClicks, instance,
                 openPanelTrigger, flowVars>>
  /\ UNCHANGED <<silenceVars, browserVars>>

\* the 2 s timeout without its call of onOpenRecordingsPanel
savedTimeout_NoSignal ==
  /\ savedTimers > 0
  /\ savedTimers' = savedTimers - 1
  /\ dictState' = Idle
  /\ UNCHANGED <<phase, clockVars, transportVars, storeVars, draft, recordings, calls,
                 micStreamRef, mediaRecorderRef, recognitionRef, noSpeechTimer,
                 dictateClicks, mountVars, flowVars>>
  /\ UNCHANGED <<silenceVars, browserVars>>

\* the 2 s timeout set by recorder.onstop: back to INITIAL_DICTATION, and
\* onOpenRecordingsPanel
savedTimeout ==
  /\ savedTimers > 0
  /\ savedTimers' = savedTimers - 1
  /\ dictState' = Idle
  /\ openPanelTrigger' = openPanelTrigger + 1
  /\ UNCHANGED <<phase, clockVars, transportVars, storeVars, draft, recordings, calls,
                 micStreamRef, mediaRecorderRef, recognitionRef, noSpeechTimer,
                 dictateClicks, instance, deadMicStreamRef, flowVars>>
  /\ UNCHANGED <<silenceVars, browserVars>>

\* useDictation.cancel (Cancel on the awaiting card, Dismiss on the error card)
cancel ==
  /\ phase = "listening"
  /\ dictState.status \in {"awaiting_manual_pause", "error"}
  /\ noSpeechTimer' = FALSE
  /\ calls' = StopRecognizer(StopStream(StopRecorder(calls, mediaRecorderRef, TRUE),
                                        micStreamRef), recognitionRef)
  /\ mediaRecorderRef' = 0
  /\ micStreamRef' = 0
  /\ recognitionRef' = 0
  /\ dictState' = Idle
  /\ UNCHANGED <<phase, clockVars, transportVars, storeVars, draft, recordings,
                 savedTimers, dictateClicks, mountVars, flowVars, browserVars>>
  /\ timerAge' = 0
  /\ UNCHANGED silentFor

\* PhaseListening "FLOW MODE": setPhase('flow').  PhaseListening unmounts, so
\* the cleanup of useDictation runs, which leaves recorder.onstop attached;
\* the timeouts of the unmounted component no longer change anything.  The
\* useDictation variables then stand for the next mount, and the unmounted
\* one keeps its micStreamRef (null after the cleanup) if it made any call.
\* PhaseFlow mounts and asks for the microphone of its meter.
enterFlow ==
  /\ phase = "listening"
  /\ noSpeechTimer' = FALSE
  /\ savedTimers' = 0
  /\ calls' = StopStream(StopRecorder(StopRecognizer(MarkTornDown(calls, mediaRecorderRef),
                                                     recognitionRef),
                                      mediaRecorderRef, FALSE), micStreamRef)
  /\ recognitionRef' = 0
  /\ mediaRecorderRef' = 0
  /\ micStreamRef' = 0
  /\ dictState' = Idle
  /\ openPanelTrigger' = 0
  /\ IF \E c \in CallIds : Current(c)
     THEN /\ instance' = instance + 1
          /\ deadMicStreamRef' = Append(deadMicStreamRef, 0)
     ELSE UNCHANGED <<instance, deadMicStreamRef>>
  /\ flowMic' = "acquiring"
  /\ AppTransition("flow", timerRunning, isRunning)
  /\ UNCHANGED <<transportVars, storeVars, draft, recordings, dictateClicks,
                 smartDictateOn, flowRec, flowSpeechVars>>
  /\ timerAge' = 0
  /\ UNCHANGED <<silentFor, browserVars>>

\* PhaseFlow: getUserMedia of the meter resolved while PhaseFlow is mounted
\* (resolved after the unmount, the stream is stopped at once)
flowMicOk ==
  /\ phase = "flow"
  /\ flowMic = "acquiring"
  /\ flowMic' = "live"
  /\ UNCHANGED <<phase, clockVars, transportVars, storeVars, draft, recordings,
                 dictVars, smartDictateOn, flowRec, flowSpeechVars>>

\* PhaseFlow: getUserMedia of the meter rejected
flowMicFail ==
  /\ phase = "flow"
  /\ flowMic = "acquiring"
  /\ flowMic' = "denied"
  /\ UNCHANGED <<phase, clockVars, transportVars, storeVars, draft, recordings,
                 dictVars, smartDictateOn, flowRec, flowSpeechVars>>

\* ------------------------------------------------------------------------
\* Autosave (useAnnotationState).  What an AppState holds is left out here:
\* a state is identified by the updates that produced it.
\* ------------------------------------------------------------------------

\* a ref that holds null, or no item in localStorage
Null == <<"null">>

\* makeDefaultAppState()
DefaultAppState == <<>>

\* loadSavedState(): the session the page found in localStorage when it loaded
SavedSession == <<"saved">>

notSaveVars == <<phase, clockVars, transportVars, storeVars, draft, recordings, dictState,
                 calls, micStreamRef, mediaRecorderRef, recognitionRef, noSpeechTimer,
                 savedTimers, dictateClicks, mountVars, silenceVars, savedDevice, pageLoads,
                 playerVars, flowVars>>

\* persistState(state): clearTimeout, then a timeout that closes over state
persistState(state) ==
  /\ pendingSave' = state
  /\ saveTimer' = state

\* setAppState(updater): any of the state setters; the updater makes the next
\* state from the previous one and persistState(next) is called
setAppState ==
  /\ Len(appState) < MaxUpdates
  /\ appState' = Append(appState, "update")
  /\ persistState(appState')
  /\ UNCHANGED <<savedOnLoad, storage, notSaveVars>>

\* the 500 ms timeout of persistState fires; written: setItem did not throw
saveTimeout(written) ==
  /\ saveTimer # Null
  /\ saveTimer' = Null
  /\ IF written
     THEN /\ storage' = saveTimer
          /\ pendingSave' = Null
     ELSE UNCHANGED <<storage, pendingSave>>
  /\ UNCHANGED <<appState, savedOnLoad, notSaveVars>>

\* flushSave on pagehide or beforeunload; the timeout stays armed
flushSave(written) ==
  /\ pendingSave # Null
  /\ IF written
     THEN /\ storage' = pendingSave
          /\ pendingSave' = Null
     ELSE UNCHANGED <<storage, pendingSave>>
  /\ UNCHANGED <<appState, savedOnLoad, saveTimer, notSaveVars>>

\* resumeSavedState, from the banner's Resume: setAppStateRaw(snapshot)
resumeSavedState ==
  /\ savedOnLoad # Null
  /\ appState' = savedOnLoad
  /\ savedOnLoad' = Null
  /\ UNCHANGED <<pendingSave, saveTimer, storage, notSaveVars>>

\* discardSavedState, from the banner's Start fresh
discardSavedState ==
  /\ savedOnLoad # Null
  /\ storage' = Null
  /\ savedOnLoad' = Null
  /\ UNCHANGED <<appState, pendingSave, saveTimer, notSaveVars>>

\* ------------------------------------------------------------------------
\* The Spotify player (useSpotifyPlayer)
\* ------------------------------------------------------------------------

\* getStoredToken() found no token
NoToken == "none"

\* the access tokens there are
Tokens == {"token1", "token2"}

notPlayerVars == <<phase, clockVars, transportVars, storeVars, draft, recordings, dictState,
                   calls, micStreamRef, mediaRecorderRef, recognitionRef, noSpeechTimer,
                   savedTimers, dictateClicks, mountVars, silenceVars, savedDevice, pageLoads,
                   saveVars, flowVars>>

\* a createPlayer that makes a player whenever it is called
createPlayer_NoGuard ==
  /\ playersCreated' = playersCreated + 1
  /\ UNCHANGED playerCreatedRef

\* useSpotifyPlayer.createPlayer
createPlayer ==
  IF playerCreatedRef
  THEN UNCHANGED <<playerCreatedRef, playersCreated>>
  ELSE /\ playerCreatedRef' = TRUE
       /\ playersCreated' = playersCreated + 1

\* App: setSpotifyToken(getStoredToken()) with another value than before; the
\* render is committed
setSpotifyToken(t) ==
  /\ ~effectsPending
  /\ tokenChanges < MaxTokenChanges
  /\ t # token
  /\ token' = t
  /\ tokenChanges' = tokenChanges + 1
  /\ effectsPending' = TRUE
  /\ UNCHANGED <<tokenRef, sdkReady, playerCreatedRef, playersCreated, notPlayerVars>>

\* the effects of that render, in the order of their declaration:
\* tokenRef.current = token, then the token-watch effect
tokenEffects ==
  /\ effectsPending
  /\ effectsPending' = FALSE
  /\ tokenRef' = token
  /\ IF token # NoToken /\ sdkReady /\ ~playerCreatedRef
     THEN createPlayer
     ELSE UNCHANGED <<playerCreatedRef, playersCreated>>
  /\ UNCHANGED <<token, tokenChanges, sdkReady, notPlayerVars>>

\* window.onSpotifyWebPlaybackSDKReady, called by the SDK script once it has loaded
onSpotifyWebPlaybackSDKReady ==
  /\ ~sdkReady
  /\ sdkReady' = TRUE
  /\ IF tokenRef # NoToken
     THEN createPlayer
     ELSE UNCHANGED <<playerCreatedRef, playersCreated>>
  /\ UNCHANGED <<token, tokenRef, effectsPending, tokenChanges, notPlayerVars>>

\* ------------------------------------------------------------------------
\* Tracks (PhaseSelect, PhaseReady and the ways out of PhaseListening)
\* ------------------------------------------------------------------------

\* PhaseListening unmounts without PhaseFlow taking its place: the cleanup of
\* useDictation runs as it does in enterFlow
PhaseListeningUnmounts ==
  /\ noSpeechTimer' = FALSE
  /\ savedTimers' = 0
  /\ calls' = StopStream(StopRecorder(StopRecognizer(MarkTornDown(calls, mediaRecorderRef),
                                                     recognitionRef),
                                      mediaRecorderRef, FALSE), micStreamRef)
  /\ recognitionRef' = 0
  /\ mediaRecorderRef' = 0
  /\ micStreamRef' = 0
  /\ dictState' = Idle
  /\ openPanelTrigger' = 0
  /\ IF \E c \in CallIds : Current(c)
     THEN /\ instance' = instance + 1
          /\ deadMicStreamRef' = Append(deadMicStreamRef, 0)
     ELSE UNCHANGED <<instance, deadMicStreamRef>>
  /\ timerAge' = 0
  /\ UNCHANGED <<dictateClicks, silentFor, browserVars>>

\* PhaseListening's Menu button: timerPause(); setPhase('select')
backToMenu ==
  /\ phase = "listening"
  /\ PhaseListeningUnmounts
  /\ AppTransition("select", FALSE, FALSE)
  /\ UNCHANGED <<transportVars, storeVars, draft, recordings, flowVars>>

\* PhaseListening.handleSkip (the prompt for a reason is not cancelled)
handleSkip ==
  /\ phase = "listening"
  /\ PhaseListeningUnmounts
  /\ status' = "skipped"
  /\ AppTransition("select", FALSE, FALSE)
  /\ UNCHANGED <<transportVars, timeline, nextId, trackVars, draft, recordings, flowVars>>

\* PhaseSelect.handleCardClick(trackId); ok is the answer to the first
\* window.confirm, and the second one (Start over?) is answered with OK.
\* setActiveTrackId, resetTrack where the branch calls it, setPhase; then the
\* rehydration effect sets the timer from the annotation of the new active
\* track and pauses it, the phase being other than listening.
handleCardClick(trackId, ok) ==
  LET ann == AnnotationOf(trackId)
      reset == \/ ann.status = "in_progress" /\ ~ok
               \/ ann.status = "skipped"
      now == IF reset THEN EmptyAnnotation ELSE ann
  IN /\ phase = "select"
     /\ ann.status = "skipped" => ok
     /\ activeTrackId' = trackId
     /\ otherAnnotations' = [t \in TrackIds \ {trackId} |-> AnnotationOf(t)]
     /\ annElapsed' = now.elapsedSeconds
     /\ timeline' = now.timeline
     /\ status' = now.status
     /\ draft' = IF reset THEN NoDraft ELSE draft
     /\ phase' = IF ann.status = "complete" THEN "review" ELSE "ready"
     /\ timerRunning' = IF reset THEN FALSE ELSE timerRunning
     /\ isRunning' = FALSE
     /\ elapsedSeconds' = now.elapsedSeconds
     /\ UNCHANGED <<transportVars, nextId, recordings, dictVars, flowVars>>

\* App: PhaseReady.onStartListening: setStatus(id, 'in_progress'),
\* setPhase('listening'), timerStart()
onStartListening ==
  /\ phase = "ready"
  /\ status' = "in_progress"
  /\ AppTransition("listening", TRUE, TRUE)
  /\ UNCHANGED <<transportVars, timeline, nextId, trackVars, draft, recordings, dictVars,
                 flowVars>>

\* ------------------------------------------------------------------------
\* Initial states and specifications
\* ------------------------------------------------------------------------

\* A session in the listening phase on its active track: the timer paused at
\* the stored elapsed seconds, nothing drafted, nothing recorded.
\* The page is loaded again and Resume is clicked on the banner:
\* resumeSavedState puts the persisted AppState in place and App.handleResume
\* sets the timer from it; then the rehydration effect runs, because
\* activeTrackId changed from null.  What is not persisted starts afresh: the
\* recordings, the player state, useDictation, and PhaseFlow with its meter if
\* the persisted phase is flow.
handleResume ==
  /\ pageLoads < MaxPageLoads
  /\ pageLoads' = pageLoads + 1
  /\ isRunning' = (phase = "listening" /\ timerRunning)
  /\ elapsedSeconds' = annElapsed
  /\ spIsPlaying' = FALSE
  /\ spPosition' = 0
  /\ spReady' = FALSE
  /\ spCommand' = NoCommand
  /\ recordings' = <<>>
  /\ dictState' = Idle
  /\ calls' = <<>>
  /\ micStreamRef' = 0
  /\ mediaRecorderRef' = 0
  /\ recognitionRef' = 0
  /\ noSpeechTimer' = FALSE
  /\ savedTimers' = 0
  /\ instance' = 1
  /\ deadMicStreamRef' = <<>>
  /\ openPanelTrigger' = 0
  /\ timerAge' = 0
  /\ silentFor' = 0
  /\ smartDictateOn' = FALSE
  /\ flowRec' = NoRec
  /\ speechToTextOn' = FALSE
  /\ flowRecognitionRef' = 0
  /\ flowRecs' = NoFlowRecs
  /\ flowMic' = IF phase = "flow" THEN "acquiring" ELSE "none"
  /\ tokenRef' = token
  /\ effectsPending' = FALSE
  /\ sdkReady' = FALSE
  /\ playerCreatedRef' = FALSE
  /\ playersCreated' = 0
  /\ UNCHANGED <<phase, timerRunning, annElapsed, storeVars, draft, dictateClicks,
                 savedDevice, saveVars, token, tokenChanges>>

InitSessionWith(elapsed, entries, device, firstId, trackStatus) ==
  /\ phase = "listening"
  /\ elapsedSeconds = elapsed
  /\ annElapsed = elapsed
  /\ isRunning = FALSE
  /\ timerRunning = FALSE
  /\ spIsPlaying = FALSE
  /\ spPosition = 0
  /\ spReady = TRUE
  /\ spCommand = NoCommand
  /\ timeline = entries
  /\ nextId = firstId
  /\ status = trackStatus
  /\ draft = NoDraft
  /\ recordings = <<>>
  /\ dictState = Idle
  /\ calls = <<>>
  /\ micStreamRef = 0
  /\ mediaRecorderRef = 0
  /\ recognitionRef = 0
  /\ noSpeechTimer = FALSE
  /\ savedTimers = 0
  /\ dictateClicks = 0
  /\ instance = 1
  /\ deadMicStreamRef = <<>>
  /\ openPanelTrigger = 0
  /\ timerAge = 0
  /\ silentFor = 0
  /\ savedDevice = device
  /\ pageLoads = 0
  /\ smartDictateOn = FALSE
  /\ flowRec = NoRec
  /\ flowMic = "none"
  /\ speechToTextOn = FALSE
  /\ flowRecognitionRef = 0
  /\ flowRecs = NoFlowRecs
  /\ activeTrackId = 1
  /\ otherAnnotations = [t \in TrackIds \ {1} |-> EmptyAnnotation]
  /\ appState = DefaultAppState
  /\ savedOnLoad = SavedSession
  /\ pendingSave = Null
  /\ saveTimer = Null
  /\ storage = SavedSession
  /\ token = "token1"
  /\ tokenRef = "token1"
  /\ effectsPending = FALSE
  /\ sdkReady = TRUE
  /\ playerCreatedRef = TRUE
  /\ playersCreated = 1
  /\ tokenChanges = 0

\* ... with no microphone chosen in the setup screen
InitSession(elapsed, entries) == InitSessionWith(elapsed, entries, FALSE, 1, "in_progress")

Init == InitSession(ResumedAt, <<>>)

MarkEntryStep ==
  \/ \E text \in NarrativeInputs : setNarrative(text)
  \/ \E text \in SectionInputs : setSectionType(text)
  \/ \E delta \in NudgeDeltas : nudge(delta)
  \/ \E tsRaw \in TypedTimestamps : handleTsBlur(tsRaw)
  \/ \E text \in PolishOutputs : acceptPolished(text)
  \/ handleSave
  \/ handleDiscard

\* The timeline of one track, written from the listening phase, the
\* mark-entry panel and the tag buttons of flow mode
Next ==
  \/ Tick
  \/ toggleTimer
  \/ handleMark
  \/ \E i \in 1..Len(timeline) : handleEdit(i)
  \/ \E i \in 1..Len(timeline) : handleDelete(i)
  \/ MarkEntryStep
  \/ enterFlow
  \/ \E tagName \in FlowTags : handleTagTap(tagName)
  \/ exitFlow

Spec == Init /\ [][Next]_vars

\* A full timeline, as restored from a saved session: ten sections at
\* 0:01 .. 0:10; their ids are not ids the uuid source of this run returns
SavedSection(k) == Entry(100 + k, formatMSS(k), Verse, Hello, Hello, FALSE, FALSE)

FullTimeline == [k \in 1..MAX_TIMELINE_ROWS |-> SavedSection(k)]

InitCapacity == InitSession(ResumedAt, FullTimeline)

\* A session restored with one section, marked where the clock now stands
InitSort ==
  InitSession(ResumedAt, <<Entry(101, formatMSS(ResumedAt), Verse, Hello, Hello, FALSE, FALSE)>>)

\* Flow mode: tags, Smart Dictate, play/pause and the seek buttons
NextFlow ==
  \/ Tick
  \/ toggleTimer
  \/ enterFlow
  \/ \E tagName \in FlowTags : handleTagTap(tagName)
  \/ toggleSmartDictate
  \/ \E text \in Utterances : flowResult(text)
  \/ handlePlayPause
  \/ \E deltaSecs \in SeekDeltas : handleSeek(deltaSecs)
  \/ exitFlow

SpecCapacity == InitCapacity /\ [][NextFlow]_vars

SpecSort == InitSort /\ [][NextFlow]_vars

\* A track started from the beginning, with the Spotify player reporting
InitClock == InitSession(0, <<>>)

NextClock ==
  \/ Tick
  \/ toggleTimer
  \/ \E playing \in BOOLEAN, pos \in Positions : TransportReport(playing, pos)
  \/ TransportReportNull
  \/ enterFlow
  \/ handlePlayPause
  \/ exitFlow

SpecClock == InitClock /\ [][NextClock]_vars

\* Dictation in the listening phase
NextDictation ==
  \/ Tick
  \/ toggleTimer
  \/ handleDictateClick
  \/ startRecording
  \/ \E c \in CallIds : acquireOk(c)
  \/ \E c \in CallIds, isDenied \in BOOLEAN : acquireFail(c, isDenied)
  \/ noSpeechTimeout
  \/ \E c \in CallIds, isFinal \in BOOLEAN, text \in SpokenTexts : onresult(c, isFinal, text)
  \/ \E c \in CallIds, error \in RecognitionErrors : onerror(c, error)
  \/ \E c \in CallIds : onend(c)
  \/ stopRecording
  \/ \E c \in CallIds : recorderStopped(c)
  \/ savedTimeout
  \/ cancel

SpecDictation == Init /\ [][NextDictation]_vars

\* Dictation with the seconds of the recording card counted
NextSilence ==
  \/ handleDictateClick
  \/ startRecording
  \/ \E c \in CallIds : acquireOk(c)
  \/ secondPasses
  \/ noSpeechTimeout
  \/ \E c \in CallIds, isFinal \in BOOLEAN, text \in SpokenTexts : onresult(c, isFinal, text)
  \/ stopRecording
  \/ \E c \in CallIds : recorderStopped(c)
  \/ savedTimeout

SpecSilence == Init /\ [][NextSilence]_vars

\* Flow mode with a uuid source that has one id more to give
InitTwoEntries == InitSessionWith(ResumedAt, <<>>, FALSE, 1 - MaxNewEntries, "in_progress")

NextFlowStore ==
  \/ Tick
  \/ toggleTimer
  \/ enterFlow
  \/ \E tagName \in FlowTags : handleTagTap(tagName)
  \/ toggleSmartDictate
  \/ \E text \in Utterances : flowResult(text)
  \/ exitFlow

SpecFlowStore == InitTwoEntries /\ [][NextFlowStore]_vars

\* The store of a track whose annotation is not in progress when the store
\* is written (PhaseReady sets in_progress on the way to the listening
\* phase; updateTimeline does not rely on it)
IdleTrackStatuses == {"not_started", "complete", "skipped"}

InitStatus ==
  \E trackStatus \in IdleTrackStatuses :
    InitSessionWith(ResumedAt, <<>>, FALSE, 1 - MaxNewEntries, trackStatus)

NextStatus ==
  \/ NextFlowStore
  \/ \E i \in 1..Len(timeline) : handleDelete(i)

SpecStatus == InitStatus /\ [][NextStatus]_vars

\* Flow mode on a track started from the beginning: play/pause, the seek
\* buttons and the scrubber, with a player that comes and goes and settles
\* the commands it was given
NextSeek ==
  \/ Tick
  \/ toggleTimer
  \/ enterFlow
  \/ handlePlayPause
  \/ \E deltaSecs \in SeekDeltas : handleSeekFrom(deltaSecs, 0)
  \/ \E secs \in ScrubTargets : onSeek(secs)
  \/ \E ready \in BOOLEAN : playerReady(ready)
  \/ \E ok \in BOOLEAN : commandSettles(ok)
  \/ exitFlow

SpecSeek == InitClock /\ [][NextSeek]_vars

\* Listening and flow mode, with the page loaded again at some moment
NextResume ==
  \/ Tick
  \/ toggleTimer
  \/ enterFlow
  \/ flowMicOk
  \/ flowMicFail
  \/ handlePlayPause
  \/ \E deltaSecs \in SeekDeltas : handleSeek(deltaSecs)
  \/ exitFlow
  \/ handleResume

SpecResume == Init /\ [][NextResume]_vars

\* Dictation on a full timeline, whose last rows the user may delete
NextDictateAtCap ==
  \/ Tick
  \/ toggleTimer
  \/ handleDictateClick
  \/ startRecording
  \/ \E c \in CallIds : acquireOk(c)
  \/ stopRecording
  \/ \E c \in CallIds : recorderStopped(c)
  \/ savedTimeout
  \/ cancel
  \/ Len(timeline) > MinRowsKept /\ handleDelete(Len(timeline))

SpecDictateAtCap == InitCapacity /\ [][NextDictateAtCap]_vars

\* A session whose browser may hold the id of a microphone chosen earlier,
\* which may be unplugged by now
InitDevice == \E device \in BOOLEAN : InitSessionWith(ResumedAt, <<>>, device, 1, "in_progress")

NextDevice ==
  \/ NextDictation
  \/ \E c \in CallIds : acquireOverconstrained(c)

SpecDevice == InitDevice /\ [][NextDevice]_vars

\* One recognition run with several results per event and several events
NextTranscript ==
  \/ handleDictateClick
  \/ startRecording
  \/ \E c \in CallIds : acquireOk(c)
  \/ \E c \in CallIds, results \in ResultBatches : onresultEvent(c, results, MaxTranscriptLen)
  \/ \E c \in CallIds : onend(c)
  \/ stopRecording
  \/ \E c \in CallIds : recorderStopped(c)
  \/ savedTimeout

SpecTranscript == Init /\ [][NextTranscript]_vars

\* Dictation where the browser delivers the recorder's stop event after
\* stop() and lets the 2 s timeout fire
SpecDictationFair ==
  /\ SpecDictation
  /\ WF_vars(\E c \in CallIds : recorderStopped(c))
  /\ WF_vars(savedTimeout)

\* The three ways into the mark-entry panel (MARK THIS MOMENT, an entry's
\* edit button, a recording's USE TRANSCRIPT, after a dictation that made the
\* recording) and its two ways out
NextMarkEntry ==
  \/ Tick
  \/ toggleTimer
  \/ handleDictateClick
  \/ startRecording
  \/ \E c \in CallIds : acquireOk(c)
  \/ \E c \in CallIds, text \in SpokenTexts : onresult(c, TRUE, text)
  \/ stopRecording
  \/ \E c \in CallIds : recorderStopped(c)
  \/ savedTimeout
  \/ handleMark
  \/ \E i \in 1..Len(timeline) : handleEdit(i)
  \/ \E r \in 1..Len(recordings) : handleUseTranscript(r)
  \/ \E text \in SectionInputs : setSectionType(text)
  \/ handleSave
  \/ handleDiscard

SpecMarkEntry == Init /\ [][NextMarkEntry]_vars

\* Dictation, with PhaseListening unmounted for flow mode at any point and
\* mounted again
NextTeardown ==
  \/ NextDictation
  \/ enterFlow
  \/ flowMicOk
  \/ flowMicFail
  \/ exitFlow

SpecTeardown == Init /\ [][NextTeardown]_vars

\* Both users of the speech recognizer: dictation in the listening phase and
\* Smart Dictate in flow mode
NextRecognizers ==
  \/ NextTeardown
  \/ toggleSmartDictate
  \/ \E text \in Utterances : flowResult(text)
  \/ flowOnend

SpecRecognizers == Init /\ [][NextRecognizers]_vars

\* ------------------------------------------------------------------------
\* Properties
\* ------------------------------------------------------------------------

\* C1: the timeline never holds more than MAX_TIMELINE_ROWS (10) entries,
\* whichever add operation is attempted.
CapacityInvariant == Len(timeline) <= MAX_TIMELINE_ROWS

\* a tag tapped in flow mode on a full timeline has made an eleventh entry
EleventhEntry ==
  /\ Len(timeline) = MAX_TIMELINE_ROWS + 1
  /\ timeline[Len(timeline)].id = 1
  /\ \A k \in 1..MAX_TIMELINE_ROWS : timeline[k] = SavedSection(k)

\* C2: after every add or edit the entries of the timeline are non-decreasing
\* by the seconds parsed from their timestamps.
SortInvariant ==
  \A i \in 1..(Len(timeline) - 1) :
    parseToSeconds(timeline[i].timestamp) <= parseToSeconds(timeline[i + 1].timestamp)

\* a tag tapped after seeking back sits behind a later section
TagBehindLaterSection ==
  /\ Len(timeline) = 2
  /\ timeline[2].id = 1
  /\ parseToSeconds(timeline[2].timestamp) < parseToSeconds(timeline[1].timestamp)

SameEntry(i, j) == timeline[i].id = timeline'[j].id

ManualMarkAt105 ==
  [][(/\ InMarkEntry
      /\ draft.origin = "mark"
      /\ draft.markedAt = 65
      /\ ~draft.tsEdited
      /\ draft.sectionType = Chorus
      /\ draft.narrative \in {VocalsEnter, <<WS>> \o VocalsEnter \o <<WS>>}
      /\ ~draft.wasPolishedThisSession
      /\ nextId' = nextId + 1)
     => \E j \in 1..Len(timeline') :
          /\ timeline'[j].id = nextId
          /\ timeline'[j].timestamp = <<"1", ":", "0", "5">>
          /\ timeline'[j].sectionType = Chorus
          /\ timeline'[j].narrative = VocalsEnter
          /\ timeline'[j].narrativeRaw = VocalsEnter
          /\ timeline'[j].wasPolished = FALSE]_vars

\* the mark of C10 is in the timeline
ChorusMarkedAt105 ==
  /\ phase = "listening"
  /\ \E j \in 1..Len(timeline) :
       /\ timeline[j].timestamp = <<"1", ":", "0", "5">>
       /\ timeline[j].sectionType = Chorus
       /\ timeline[j].narrative = VocalsEnter
       /\ timeline[j].narrativeRaw = VocalsEnter
       /\ ~timeline[j].isDictated
       /\ ~timeline[j].wasPolished

\* the player state changes to playing, as reported by a poll or an event
ReportsPlaying ==
  /\ <<spIsPlaying', spPosition'>> # <<spIsPlaying, spPosition>>
  /\ spIsPlaying'

NoCorrectionWhilePaused ==
  [][(<<spIsPlaying', spPosition'>> # <<spIsPlaying, spPosition>> /\ ~spIsPlaying')
       => elapsedSeconds' = elapsedSeconds]_vars

\* not playing, 13000 ms reported, and the running clock still at 10
PausedReportIgnored ==
  /\ isRunning
  /\ ~spIsPlaying
  /\ spPosition = 13000
  /\ elapsedSeconds = 10

RecordingsOf(c) == {r \in 1..Len(recordings) : recordings[r].call = c}

\* C4: an attempt whose recognizer failed fatally while its recorder was
\* recording has, once its recorder is inactive, exactly one recording, with
\* the transcript committed before the failure.
AudioKeptAfterFatalError ==
  \A c \in CallIds :
    (calls[c].fatalWhileRecording /\ calls[c].recorder = "inactive")
      => /\ Cardinality(RecordingsOf(c)) = 1
         /\ \A r \in RecordingsOf(c) :
              recordings[r].transcript = calls[c].finalTranscriptSnapshot

\* the recognizer failed, the error card was dismissed, no recording was made
AudioDroppedAfterFatalError ==
  \E c \in CallIds :
    /\ calls[c].fatalWhileRecording
    /\ calls[c].recorder = "inactive"
    /\ calls[c].cancelled
    /\ RecordingsOf(c) = {}
    /\ dictState.status = "idle"

\* cancel() stops the recorder of call c
CancelStops(c) == ~calls[c].cancelled /\ calls'[c].cancelled

\* C5: cancel() on an attempt whose recorder is recording adds no recording
\* and no timeline entry and stops the microphone stream; the recorder's
\* onstop is detached and never runs for that attempt.
CancelDiscards ==
  /\ [](\A c \in CallIds :
          calls[c].cancelled => /\ calls[c].onstopRuns = 0
                                /\ ~calls[c].onstop
                                /\ calls[c].stream = "stopped"
                                /\ RecordingsOf(c) = {})
  /\ [][\A c \in CallIds :
          CancelStops(c) => /\ recordings' = recordings
                            /\ timeline' = timeline
                            /\ micStreamRef' = 0
                            /\ dictState' = Idle]_vars

\* speech was recorded, the attempt was cancelled, the recorder's stop event
\* has come and gone, and there is no recording
CancelledAfterSpeech ==
  \E c \in CallIds :
    /\ calls[c].cancelled
    /\ calls[c].finalTranscript # Empty
    /\ calls[c].recorder = "inactive"
    /\ calls[c].stream = "stopped"
    /\ recordings = <<>>
    /\ timeline = <<>>

\* C6: when a dictation attempt ends (cancelled, or stopped and completed),
\* the clock runs again exactly if it ran when the attempt began.
TimerRestoredAfterDictation ==
  [][(dictState.status # "idle" /\ dictState'.status = "idle")
       => isRunning' = dictState.capturedWasRunning]_vars

\* C7: a click on Dictate while an attempt is unresolved changes nothing: the
\* dictation state with its captured timestamp and running flag, the
\* startRecording calls, the microphone and the clock stay as they are.
SecondDictateRejected ==
  [][(dictState.status # "idle" /\ dictateClicks' # dictateClicks)
       => UNCHANGED <<dictState, calls, micStreamRef, mediaRecorderRef, recognitionRef,
                      clockVars, recordings, timeline>>]_vars

\* two clicks, and the attempt still holds the timestamp of the first while
\* the clock has moved on
SecondClickKeptSnapshot ==
  /\ dictateClicks = 2
  /\ dictState.status = "awaiting_manual_pause"
  /\ dictState.capturedTimestamp # formatMSS(elapsedSeconds)
  /\ dictState.capturedWasRunning # isRunning

\* C11: an attempt whose recorder the unmount cleanup stopped ends as a
\* cancelled one does: recorder.onstop never runs for it, it has no recording,
\* its recorder no longer records and its microphone stream is stopped.
TeardownMatchesCancel ==
  \A c \in CallIds :
    calls[c].tornDown => /\ calls[c].onstopRuns = 0
                         /\ RecordingsOf(c) = {}
                         /\ calls[c].recorder # "recording"
                         /\ calls[c].stream = "stopped"

\* PhaseListening was unmounted while recording, and the recording was saved
TornDownRecordingSaved ==
  \E c \in CallIds :
    /\ calls[c].tornDown
    /\ calls[c].recorder = "inactive"
    /\ calls[c].onstopRuns = 1
    /\ RecordingsOf(c) # {}

\* C12: recorder.onstop never runs twice for one recorder; a recorder that
\* stopRecording() stopped keeps onstop attached until its stop event, and
\* once it is inactive onstop has run exactly once and added one recording.
CompletionExactlyOnce ==
  \A c \in CallIds :
    /\ calls[c].onstopRuns <= 1
    /\ Cardinality(RecordingsOf(c)) = calls[c].onstopRuns
    /\ (calls[c].stopped /\ calls[c].recorder = "stopping")
         => calls[c].onstop /\ calls[c].onstopRuns = 0
    /\ (calls[c].stopped /\ calls[c].recorder = "inactive") => calls[c].onstopRuns = 1

\* Stop Recording was pressed and the completion callback has run
StoppedAndCompleted ==
  \E c \in CallIds :
    /\ calls[c].stopped
    /\ calls[c].recorder = "inactive"
    /\ calls[c].onstopRuns = 1
    /\ RecordingsOf(c) # {}

\* C13: a microphone stream acquired by startRecording() is live only while
\* the PhaseListening that asked for it is mounted and its dictation is not
\* idle.
NoMicrophoneOutlivesDictation ==
  \A c \in CallIds :
    calls[c].stream = "live" => /\ Current(c)
                                /\ phase # "flow"
                                /\ dictState.status # "idle"

\* getUserMedia resolved after PhaseListening was unmounted: the stream is
\* live, the recorder records, and no mounted component holds a ref to them
StreamAcquiredAfterUnmount ==
  \E c \in CallIds :
    /\ ~Current(c)
    /\ calls[c].stream = "live"
    /\ calls[c].recorder = "recording"
    /\ micStreamRef = 0
    /\ mediaRecorderRef = 0

\* the live microphone streams: those acquired by startRecording() calls and
\* the one of PhaseFlow's meter
LiveStreams ==
  {c \in CallIds : calls[c].stream = "live"} \cup (IF flowMic = "live" THEN {0} ELSE {})

\* C14: at no time are two acquired microphone streams live, whether acquired
\* by startRecording() calls or by flow mode.
SingleMicrophoneHolder == Cardinality(LiveStreams) <= 1

\* flow mode holds its stream and a startRecording() call holds another
FlowAndDictationBothLive ==
  /\ phase = "flow"
  /\ flowMic = "live"
  /\ \E c \in CallIds : calls[c].stream = "live" /\ calls[c].recorder = "recording"

\* the mark-entry panel opens / closes
MarkEntryOpens == phase = "listening" /\ phase' = "mark_entry"

MarkEntryCloses == phase = "mark_entry" /\ phase' = "listening"

\* C15: opening the mark-entry panel (mark, edit or use-transcript) records
\* whether the timer was running and pauses it; closing it by save or discard
\* leaves the timer, and appState.timerRunning, at exactly the recorded value.
ClockRestoredOnMarkEntryExit ==
  [][/\ MarkEntryOpens => /\ draft'.wasTimerRunning = isRunning
                          /\ ~isRunning'
     /\ MarkEntryCloses => /\ isRunning' = draft.wasTimerRunning
                           /\ timerRunning' = draft.wasTimerRunning]_vars

\* a transcript was used while the timer ran, the entry was saved, and the
\* timer runs again
TranscriptSavedTimerRunning ==
  /\ phase = "listening"
  /\ isRunning
  /\ timerRunning
  /\ \E k \in 1..Len(timeline) : timeline[k].isDictated

\* C16: a dictation in status 'error' carries a message, and the only step
\* that takes it out of 'error' is cancel(): straight to INITIAL_DICTATION,
\* with no timeout consumed and the refs cleared.
ErrorLeftOnlyByCancel ==
  /\ [](dictState.status = "error" => dictState.error # "none")
  /\ [][(dictState.status = "error" /\ dictState'.status # "error")
          => /\ dictState' = Idle
             /\ savedTimers' = savedTimers
             /\ mediaRecorderRef' = 0
             /\ micStreamRef' = 0
             /\ recognitionRef' = 0]_vars

\* the recognizer failed after Stop Recording, and the recorder's onstop then
\* replaced the error card by the AUDIO SAVED card
ErrorReplacedByAudioSaved ==
  /\ dictState.status = "audio_saved"
  /\ dictState.error # "none"
  /\ \E c \in CallIds : calls[c].stopped /\ calls[c].recog = "failed"

\* s is an initial part of t
IsPrefix(s, t) == Len(s) <= Len(t) /\ \A k \in 1..Len(s) : s[k] = t[k]

\* C17 as stated: the recording of an attempt ended by stopRecording() carries
\* the timestamp captured for the attempt and exactly the trimmed
\* finalTranscript as it stood when stopRecording() ran.
RecordingHasTranscriptAtStop ==
  \A c \in CallIds : \A r \in RecordingsOf(c) :
    calls[c].stopped => /\ recordings[r].timestamp = calls[c].capturedTs
                        /\ recordings[r].transcript = calls[c].transcriptAtStop

\* C17, amended: recorder.onstop always appends one recording, empty
\* transcript or not, with the timestamp captured for the attempt and the
\* trimmed finalTranscript as it stands at the recorder's stop event; for an
\* attempt ended by stopRecording() that is what was committed before the
\* stop, followed by whatever the recognizer committed since.
RecordingHasTranscriptAtStopEvent ==
  /\ [](\A c \in CallIds : \A r \in RecordingsOf(c) :
          calls[c].stopped => /\ recordings[r].timestamp = calls[c].capturedTs
                              /\ IsPrefix(calls[c].transcriptAtStop,
                                          recordings[r].transcript))
  /\ [][\A c \in CallIds :
          calls'[c].onstopRuns # calls[c].onstopRuns
            => recordings' = Append(recordings,
                                    [call |-> c, timestamp |-> calls[c].capturedTs,
                                     transcript |-> Trim(calls[c].finalTranscript)])]_vars

\* Stop Recording with nothing committed, the recognizer's last result arrived
\* before the recorder's stop event, and the recording carries it
LateResultInRecording ==
  \E c \in CallIds : \E r \in RecordingsOf(c) :
    /\ calls[c].stopped
    /\ calls[c].transcriptAtStop = Empty
    /\ recordings[r].transcript = Hello
    /\ recordings[r].timestamp = formatMSS(ResumedAt)

\* C18: once stopRecording() has stopped an attempt's recorder, its onstop
\* sets 'finalizing' and then 'audio_saved', and the 2 s timeout then brings
\* the dictation to idle with the panel signalled; each recording made while
\* PhaseListening stays mounted accounts for one signal, sent or pending.
StopLeadsToSavedThenIdle ==
  /\ [](openPanelTrigger + savedTimers = Len(recordings))
  /\ \A c \in 1..MaxCalls :
       (c \in CallIds /\ calls[c].stopped /\ calls[c].recorder = "stopping")
         ~> (/\ dictState.status = "audio_saved"
             /\ calls[c].onstopStatuses = <<"finalizing", "audio_saved">>)
  /\ \A c \in 1..MaxCalls :
       (c \in CallIds /\ calls[c].stopped /\ calls[c].recorder = "stopping")
         ~> (/\ dictState.status = "idle"
             /\ savedTimers = 0
             /\ openPanelTrigger = Len(recordings)
             /\ RecordingsOf(c) # {})

\* the attempt was stopped, saved and acknowledged; the dictation is idle
\* again and the panel was signalled once
IdleAfterAudioSaved ==
  /\ dictState.status = "idle"
  /\ openPanelTrigger = 1
  /\ Len(recordings) = 1
  /\ \E c \in CallIds : calls[c].stopped /\ calls[c].onstopRuns = 1

\* recognition.onerror runs for call c
ErrorReported(c) == calls[c].recog # "failed" /\ calls'[c].recog = "failed"

EndsUnexpectedly(c) == calls[c].recog = "active" /\ calls'[c].recog = "ended"

\* C20: when a listening recognizer ends on its own, the dictation keeps its
\* status and message (it does not enter 'error'), the committed transcript
\* and the running recorder are untouched, the overlay shows the committed
\* transcript, and the recognizer is dropped; in flow mode a new recognizer
\* is started at once and the timeline is untouched.
UnexpectedEndIsNotFatal ==
  /\ [][\A c \in CallIds :
          EndsUnexpectedly(c) =>
            /\ calls'[c].finalTranscript = calls[c].finalTranscript
            /\ calls'[c].finalTranscriptSnapshot = calls[c].finalTranscriptSnapshot
            /\ calls'[c].recorder = calls[c].recorder
            /\ calls'[c].stream = calls[c].stream
            /\ recordings' = recordings
            /\ Current(c) => /\ dictState'.status = dictState.status
                             /\ dictState'.error = dictState.error
                             /\ recognitionRef' = 0
                             /\ dictState.status = "recording"
                                  => dictState'.transcript = Trim(calls[c].finalTranscript)]_vars
  /\ [][(flowRec.state = "active" /\ flowRec' # flowRec /\ flowRec'.state # "none")
          => /\ flowRec'.state = "active"
             /\ flowRec'.starts = flowRec.starts + 1
             /\ flowRec'.ends = flowRec.ends + 1
             /\ timeline' = timeline
             /\ smartDictateOn' = smartDictateOn]_vars

\* the recognizer ended on its own after committing speech: the dictation is
\* still recording and shows the committed transcript
RecordingGoesOnAfterEnd ==
  \E c \in CallIds :
    /\ calls[c].recog = "ended"
    /\ calls[c].lastError = "none"
    /\ ~calls[c].stopped
    /\ calls[c].recorder = "recording"
    /\ calls[c].finalTranscript # Empty
    /\ dictState.status = "recording"
    /\ dictState.transcript = Hello

\* a final result is committed for call c
ChunkCommitted(c) == calls'[c].finalTranscript # calls[c].finalTranscript

\* C21: on the recording card, once 5 s have passed since the recording
\* started or since the last committed chunk (and no due timeout is still to
\* fire) noSpeechHint is true; committing a chunk clears it in the same step.
SilenceWatchdog ==
  /\ []((/\ dictState.status = "recording"
          /\ silentFor = NO_SPEECH_SECONDS
          /\ ~(noSpeechTimer /\ timerAge = NO_SPEECH_SECONDS))
           => dictState.noSpeechHint)
  /\ [][\A c \in CallIds :
          (Current(c) /\ ChunkCommitted(c)) => ~dictState'.noSpeechHint]_vars

\* a chunk was committed, 5 s of silence followed, and no hint is shown
SilentAfterChunkWithoutHint ==
  /\ dictState.status = "recording"
  /\ dictState.transcript = Hello
  /\ \E c \in CallIds : calls[c].finalTranscript # Empty /\ calls[c].recog = "active"
  /\ silentFor = NO_SPEECH_SECONDS
  /\ ~noSpeechTimer
  /\ ~dictState.noSpeechHint

\* C22: whatever results an event delivers, the finalTranscript of a
\* recognition run after the event starts with its value before the event:
\* chunks are only ever appended, in the order delivered.
FinalTranscriptOnlyGrows ==
  [][\A c \in CallIds :
       IsPrefix(calls[c].finalTranscript, calls'[c].finalTranscript)]_vars

\* 'hello' was committed, then 'goodbye', and the transcript reads
\* "hello goodbye "
HelloThenGoodbye ==
  \E c \in CallIds :
    /\ calls[c].finalTranscript = Hello \o <<WS>> \o Goodbye \o <<WS>>
    /\ calls[c].finalTranscriptSnapshot = Hello \o <<WS>> \o Goodbye

AcquisitionFailureIsDismissible ==
  /\ [](\A c \in CallIds :
          calls[c].stage = "failed"
            => /\ calls[c].stream = "none"
               /\ calls[c].recorder = "none"
               /\ calls[c].recog = "none"
               /\ calls[c].finalTranscript = Empty
               /\ \A i \in DOMAIN recordings : recordings[i].call # c)
  /\ [][\A c \in CallIds :
         calls[c].stage # "failed" /\ calls'[c].stage = "failed"
           => /\ dictState'.status = "error"
              /\ dictState'.error \in {acquireErrorMessage(TRUE), acquireErrorMessage(FALSE)}]_vars
  /\ [][(/\ dictState.status = "error"
          /\ \E c \in CallIds : calls[c].stage = "failed"
          /\ dictState'.status = "idle"
          /\ savedTimers' = savedTimers)
           => /\ dictState' = Idle
              /\ recordings' = recordings
              /\ timeline' = timeline
              /\ micStreamRef' = 0
              /\ mediaRecorderRef' = 0
              /\ recognitionRef' = 0]_vars

\* the microphone was refused, the error card was dismissed, and nothing is left
FailedAttemptDismissed ==
  /\ dictState = Idle
  /\ dictateClicks > 0
  /\ recordings = <<>>
  /\ \E c \in CallIds : calls[c].stage = "failed"

\* C25: a click on Dictate while the timeline holds MAX_TIMELINE_ROWS entries
\* changes nothing: no startRecording call exists, the dictation state is as
\* before (idle), and the clock keeps its value and keeps running or standing.
DictateRejectedAtCapacity ==
  /\ [](Len(timeline) >= MAX_TIMELINE_ROWS => dictState = Idle /\ calls = <<>>)
  /\ [][dictateClicks' = dictateClicks + 1 /\ Len(timeline) >= MAX_TIMELINE_ROWS
         => /\ dictState' = dictState
            /\ calls' = calls
            /\ elapsedSeconds' = elapsedSeconds
            /\ isRunning' = isRunning
            /\ timerRunning' = timerRunning]_vars

\* Dictate was clicked on the full timeline while the clock ran, which it still does
RejectedClickClockRunning ==
  /\ Len(timeline) = MAX_TIMELINE_ROWS
  /\ dictateClicks > 0
  /\ isRunning
  /\ dictState = Idle

\* C26: when a saved session is resumed, the clock shows the elapsed seconds
\* persisted for the track and runs exactly if the persisted timerRunning
\* flag is set.
ClockRehydratedOnResume ==
  [][pageLoads' = pageLoads + 1
       => /\ elapsedSeconds' = annElapsed
          /\ isRunning' = timerRunning]_vars

\* a session persisted in flow mode with the timerRunning flag set was
\* resumed, and the clock stands
ResumedInFlowClockStands ==
  /\ pageLoads > 0
  /\ phase = "flow"
  /\ timerRunning
  /\ ~isRunning
  /\ elapsedSeconds = annElapsed

RejectedCommandChangesNothing ==
  [][spCommand.state = "pending" /\ spCommand'.state = "rejected"
       => /\ phase' = phase
          /\ elapsedSeconds' = elapsedSeconds
          /\ isRunning' = isRunning
          /\ timerRunning' = timerRunning
          /\ dictState' = dictState
          /\ dictState'.status # "error"]_vars

\* the player rejected a seek and the clock runs on in flow mode
SeekRejectedClockRunning ==
  /\ phase = "flow"
  /\ spCommand.op = "seek"
  /\ spCommand.state = "rejected"
  /\ isRunning

\* C29: in flow mode every add is applied to the store as the adds before
\* it left it: the store after the add is the store before it with the new
\* entry appended.
AddsAppliedInCallOrder ==
  [][nextId' = nextId + 1
       => /\ Len(timeline') = Len(timeline) + 1
          /\ SubSeq(timeline', 1, Len(timeline)) = timeline]_vars

\* two entries were added, a tag and then a dictated note, and the store
\* holds the note alone
TagLostToDictatedNote ==
  /\ nextId = MaxNewEntries + 1
  /\ Len(timeline) = 1
  /\ timeline[1].isDictated
  /\ timeline[1].id = nextId - 1

\* C30: the add that puts the first entry in the empty store of a track whose
\* status is not_started sets the status to in_progress.
FirstAddStartsTrack ==
  [][(/\ timeline = <<>>
      /\ Len(timeline') = 1
      /\ status = "not_started")
       => status' = "in_progress"]_vars

\* the first entry was added to the empty store of a track that was not in
\* progress, and now it is
FirstEntryTrackInProgress ==
  /\ Len(timeline) = 1
  /\ timeline[1].id = 1 - MaxNewEntries
  /\ status = "in_progress"
  /\ phase = "flow"

\* position of the entry with the given id
PosOf(entries, id) == CHOOSE k \in 1..Len(entries) : entries[k].id = id

\* C31: a step that adds an entry or changes one leaves the timeline
\* non-decreasing by the seconds parsed from the timestamps, with entries of
\* equal seconds in the order they had before and a new entry behind them.
SortedAndStableAfterWrite ==
  [][(timeline' # timeline /\ Len(timeline') >= Len(timeline))
       => /\ \A i \in 1..(Len(timeline') - 1) :
               parseToSeconds(timeline'[i].timestamp) <= parseToSeconds(timeline'[i + 1].timestamp)
          /\ \A i \in 1..Len(timeline'), j \in 1..Len(timeline') :
               (/\ i < j
                /\ parseToSeconds(timeline'[i].timestamp) = parseToSeconds(timeline'[j].timestamp)
                /\ \E k \in 1..Len(timeline) : timeline[k].id = timeline'[j].id)
                 => /\ \E k \in 1..Len(timeline) : timeline[k].id = timeline'[i].id
                    /\ PosOf(timeline, timeline'[i].id) < PosOf(timeline, timeline'[j].id)]_vars

\* in flow mode an entry was added behind the saved section at 1:04 though
\* its timestamp is earlier
FlowEntryOutOfOrder ==
  /\ phase = "flow"
  /\ Len(timeline) = 2
  /\ timeline[1].id = 101
  /\ parseToSeconds(timeline[2].timestamp) < parseToSeconds(timeline[1].timestamp)


\* ------------------------------------------------------------------------
\* Timestamp format
\* ------------------------------------------------------------------------

\* The second a click on the scrubber stands for, and a position (ms) the
\* player reports, both within the seconds this session's clock runs through
LateScrubTargets == {MaxElapsed}
LatePositions == {ResumedAt * 1000 + 400}

\* Every writer of a timestamp, on a clock moved by ticks, the scrubber and
\* drift correction: the tag buttons of flow mode, the mark-entry panel with
\* its typed and nudged timestamps, and a dictation that leaves a recording
NextStamps ==
  \/ Tick
  \/ toggleTimer
  \/ \E pos \in LatePositions : TransportReport(TRUE, pos)
  \/ enterFlow
  \/ \E secs \in LateScrubTargets : onSeek(secs)
  \/ \E tagName \in FlowTags : handleTagTap(tagName)
  \/ exitFlow
  \/ handleMark
  \/ \E text \in FlowTags : setSectionType(text)
  \/ \E text \in SpokenTexts : setNarrative(text)
  \/ \E delta \in NudgeDeltas : nudge(delta)
  \/ \E tsRaw \in TypedTimestamps : handleTsBlur(tsRaw)
  \/ handleSave
  \/ handleDiscard
  \/ handleDictateClick
  \/ startRecording
  \/ \E c \in CallIds : acquireOk(c)
  \/ stopRecording
  \/ \E c \in CallIds : recorderStopped(c)
  \/ savedTimeout

SpecStamps == Init /\ [][NextStamps]_vars

startRecognitionOnly ==
  /\ phase = "listening"
  /\ dictState.status = "awaiting_manual_pause"
  /\ Len(calls) < MaxCalls
  /\ calls' = Append(calls, [NewCall EXCEPT !.stage = "started", !.recog = "active"])
  /\ recognitionRef' = Len(calls) + 1
  /\ dictState' = [dictState EXCEPT !.status = "recording", !.transcript = Empty]
  /\ UNCHANGED <<phase, clockVars, transportVars, storeVars, draft, recordings,
                 micStreamRef, mediaRecorderRef, noSpeechTimer, savedTimers,
                 dictateClicks, mountVars, silenceVars, browserVars, flowVars>>

\* its recognition.onresult: the displayed transcript is finalTranscript and
\* the interim text, trimmed, whatever the status
onresultRecognitionOnly(c, results) ==
  /\ calls[c].recog \in {"active", "stopping"}
  /\ Len(calls[c].finalTranscript) < 2 * MaxFinalResults
  /\ LET done == ProcessResults(results, calls[c].finalTranscript, Empty)
     IN /\ calls' = [calls EXCEPT ![c].finalTranscript = done.final]
        /\ dictState' = [dictState EXCEPT !.transcript = Trim(done.final \o done.interim)]
  /\ UNCHANGED <<phase, clockVars, transportVars, storeVars, draft, recordings,
                 micStreamRef, mediaRecorderRef, recognitionRef, noSpeechTimer,
                 savedTimers, dictateClicks, mountVars, silenceVars, browserVars, flowVars>>

\* its recognition.onend: an attempt still recording is done, with the
\* trimmed finalTranscript
onendRecognitionOnly(c) ==
  /\ calls[c].recog \in {"active", "stopping"}
  /\ calls' = [calls EXCEPT ![c].recog = "ended"]
  /\ dictState' = IF dictState.status = "recording"
                  THEN [dictState EXCEPT !.status = "done",
                                         !.transcript = Trim(calls[c].finalTranscript)]
                  ELSE dictState
  /\ recognitionRef' = 0
  /\ UNCHANGED <<phase, clockVars, transportVars, storeVars, draft, recordings,
                 micStreamRef, mediaRecorderRef, noSpeechTimer, savedTimers,
                 dictateClicks, mountVars, silenceVars, browserVars, flowVars>>

\* its stopRecording (the Stop button of the recording card)
stopRecognitionOnly ==
  /\ phase = "listening"
  /\ dictState.status = "recording"
  /\ calls' = StopRecognizer(calls, recognitionRef)
  /\ recognitionRef' = 0
  /\ dictState' = [dictState EXCEPT !.status = "done"]
  /\ UNCHANGED <<phase, clockVars, transportVars, storeVars, draft, recordings,
                 micStreamRef, mediaRecorderRef, noSpeechTimer, savedTimers,
                 dictateClicks, mountVars, silenceVars, browserVars, flowVars>>

\* useDictation.accept (the Use Transcript button of the TRANSCRIPT READY
\* card, disabled while the transcript is empty) and PhaseListening's
\* onComplete callback
accept ==
  /\ phase = "listening"
  /\ dictState.status = "done"
  /\ dictState.transcript # Empty
  /\ draft' = NewDraft(dictState.capturedTimestamp, dictState.transcript,
                       dictState.capturedWasRunning, TRUE, "dictation")
  /\ AppTransition("mark_entry", timerRunning, isRunning)
  /\ dictState' = Idle
  /\ UNCHANGED <<transportVars, storeVars, recordings, calls, micStreamRef,
                 mediaRecorderRef, recognitionRef, noSpeechTimer, savedTimers,
                 dictateClicks, mountVars, silenceVars, browserVars, flowVars>>

\* its cancel (Cancel, Discard and Dismiss of the dictation cards)
cancelRecognitionOnly ==
  /\ phase = "listening"
  /\ dictState.status # "idle"
  /\ calls' = StopRecognizer(calls, recognitionRef)
  /\ recognitionRef' = 0
  /\ dictState' = Idle
  /\ UNCHANGED <<phase, clockVars, transportVars, storeVars, draft, recordings,
                 micStreamRef, mediaRecorderRef, noSpeechTimer, savedTimers,
                 dictateClicks, mountVars, silenceVars, browserVars, flowVars>>

\* A dictation that ends on the TRANSCRIPT READY card, and the mark-entry
\* panel its acceptance opens
NextAccept ==
  \/ Tick
  \/ toggleTimer
  \/ handleDictateClick
  \/ startRecognitionOnly
  \/ \E c \in CallIds, r \in SpeechResults : onresultRecognitionOnly(c, <<r>>)
  \/ \E c \in CallIds : onendRecognitionOnly(c)
  \/ stopRecognitionOnly
  \/ accept
  \/ cancelRecognitionOnly
  \/ \E text \in SectionInputs : setSectionType(text)
  \/ handleSave
  \/ handleDiscard

SpecAccept == Init /\ [][NextAccept]_vars

\* C33: accepting a completed transcript hands the committed-only
\* finalTranscript, the captured timestamp and the captured running flag to
\* the mark-entry panel, returns the attempt to idle and adds no timeline
\* entry.
AcceptHandsFinalTranscript ==
  [][(phase = "listening" /\ dictState.status = "done" /\ phase' = "mark_entry")
       => /\ draft'.narrative = Trim(calls[Len(calls)].finalTranscript)
          /\ draft'.timestamp = dictState.capturedTimestamp
          /\ draft'.wasTimerRunning = dictState.capturedWasRunning
          /\ dictState' = Idle
          /\ timeline' = timeline]_vars

\* the mark-entry panel opened with an accepted transcript none of whose
\* words the recognizer had committed
InterimTextAccepted ==
  /\ phase = "mark_entry"
  /\ draft # NoDraft
  /\ draft.origin = "dictation"
  /\ draft.narrative # Empty
  /\ calls[Len(calls)].finalTranscript = Empty


\* C34: once PhaseListening has been unmounted, nothing its dictation started
\* is still active, as after cancel(): no microphone stream of it is live, no
\* recorder of it records or is about to deliver its recording, and no
\* recognizer of it listens.
NothingActiveAfterTeardown ==
  \A c \in CallIds :
    ~Current(c) => /\ calls[c].stream # "live"
                   /\ calls[c].recorder # "recording"
                   /\ ~(calls[c].recorder = "stopping" /\ calls[c].onstop)
                   /\ calls[c].recog # "active"

\* back in the listening phase after flow mode, the microphone, recorder and
\* recognizer of the PhaseListening unmounted earlier are still running
TornDownAttemptStillRunning ==
  /\ phase = "listening"
  /\ \E c \in CallIds :
       /\ ~Current(c)
       /\ calls[c].stream = "live"
       /\ calls[c].recorder = "recording"
       /\ calls[c].recog = "active"


\* C35: the mark-entry panel is opened (by MARK THIS MOMENT, an entry's edit
\* button or USE TRANSCRIPT) only while the dictation attempt is idle, and
\* it is never open while an attempt is not idle.
NoDraftDuringDictation ==
  /\ [][(phase = "listening" /\ phase' = "mark_entry") => dictState.status = "idle"]_vars
  /\ [](phase = "mark_entry" => dictState.status = "idle")

\* an entry is being edited in the mark-entry panel while a dictation
\* attempt begun before waits for its Start Recording button
EditingDuringAttempt ==
  /\ phase = "mark_entry"
  /\ draft # NoDraft
  /\ draft.mode = "edit"
  /\ dictState.status = "awaiting_manual_pause"

\* ------------------------------------------------------------------------
\* The recognizers of flow mode
\* ------------------------------------------------------------------------

\* Flow mode with both toggles and the end events of its recognizers
NextFlowSpeech ==
  \/ Tick
  \/ toggleTimer
  \/ enterFlow
  \/ toggleSmartDictate
  \/ toggleSpeechToText
  \/ flowOnend
  \/ \E k \in FlowSlots : flowOnendStopped(k)
  \/ exitFlow

SpecFlowSpeech == Init /\ [][NextFlowSpeech]_vars

ActiveRecognizers == {k \in FlowSlots : flowRecs[k].state = "active"}

\* C36: in flow mode, while both toggles are off no recognizer listens and
\* recognitionRef is null, whatever end events arrive; and at no time do two
\* recognizers listen.
RecognitionOffWhenTogglesOff ==
  /\ (~smartDictateOn /\ ~speechToTextOn) => (ActiveRecognizers = {} /\ flowRecognitionRef = 0)
  /\ Cardinality(ActiveRecognizers) <= 1

\* both toggles are off and a recognizer listens: the end event of the stopped
\* one started it
RestartedWithTogglesOff ==
  /\ phase = "flow"
  /\ ~smartDictateOn
  /\ ~speechToTextOn
  /\ flowRecognitionRef # 0
  /\ flowRecs[flowRecognitionRef].state = "active"


\* C37: an entry added in flow mode, by a tag button or by a Smart Dictate
\* utterance, carries the clock's elapsed seconds of the moment it is added.
FlowEntriesStampedNow ==
  [][(phase = "flow" /\ nextId' = nextId + 1)
       => \E i \in 1..Len(timeline') :
            /\ timeline'[i].id = nextId
            /\ timeline'[i].timestamp = formatMSS(elapsedSeconds)]_vars

\* a dictated note stamped 1:04, the clock of the render that started the
\* recognizer, in a session whose clock has reached 1:06
NoteStampedWithStartOfRecognition ==
  /\ phase = "flow"
  /\ elapsedSeconds = MaxElapsed
  /\ flowRec.state = "active"
  /\ flowRec.elapsedSeconds = ResumedAt
  /\ \E i \in 1..Len(timeline) :
       /\ timeline[i].isDictated
       /\ timeline[i].timestamp = formatMSS(ResumedAt)

\* ------------------------------------------------------------------------
\* Elapsed seconds of the tracks
\* ------------------------------------------------------------------------

NextTracks ==
  \/ Tick
  \/ toggleTimer
  \/ backToMenu
  \/ handleSkip
  \/ \E trackId \in TrackIds, ok \in BOOLEAN : handleCardClick(trackId, ok)
  \/ onStartListening
  \/ handleResume

SpecTracks == Init /\ [][NextTracks]_vars

\* C38: the persisted elapsedSeconds of a track changes only while that track
\* is the active one, and only in two ways: a tick of the running clock adds
\* one second to the track's own value (which is then what the clock shows),
\* or resetTrack, called from the track list, makes the annotation empty.
\* No step changes the elapsedSeconds of any other track.
ElapsedWrittenToActiveTrackOnly ==
  [][\A t \in TrackIds :
       AnnotationOf(t).elapsedSeconds' # AnnotationOf(t).elapsedSeconds
         => /\ t = activeTrackId'
            /\ \/ /\ isRunning
                  /\ AnnotationOf(t).elapsedSeconds' = AnnotationOf(t).elapsedSeconds + 1
                  /\ elapsedSeconds' = AnnotationOf(t).elapsedSeconds'
               \/ /\ phase = "select"
                  /\ AnnotationOf(t)' = EmptyAnnotation]_vars

\* the second track is two seconds in, after the first one ran for a second,
\* was left and was started over
TickedOnBothTracks ==
  /\ activeTrackId = 2
  /\ phase = "listening"
  /\ isRunning
  /\ annElapsed = 2
  /\ otherAnnotations[1] = [EmptyAnnotation EXCEPT !.elapsedSeconds = 1, !.status = "skipped"]

\* ------------------------------------------------------------------------
\* What autosave writes
\* ------------------------------------------------------------------------

NextAutosave ==
  \/ setAppState
  \/ \E written \in BOOLEAN : saveTimeout(written)
  \/ \E written \in BOOLEAN : flushSave(written)
  \/ resumeSavedState
  \/ discardSavedState

SpecAutosave == Init /\ [][NextAutosave]_vars

\* C39: whenever the debounce timeout or the flush writes the item, what it
\* writes is the application state of that moment - never an older state
\* than the one the application is in.
WritesTheLatestState ==
  [][(storage' # storage /\ storage' # Null) => storage' = appState']_vars

\* the resumed session is on screen, and the item holds the state of before
\* the Resume, written after it
OlderStateWrittenAfterResume ==
  /\ appState = SavedSession
  /\ savedOnLoad = Null
  /\ storage = <<"update">>
  /\ pendingSave = Null
  /\ saveTimer = Null

\* ------------------------------------------------------------------------
\* One player
\* ------------------------------------------------------------------------

NextPlayer ==
  \/ \E t \in Tokens \cup {NoToken} : setSpotifyToken(t)
  \/ tokenEffects
  \/ onSpotifyWebPlaybackSDKReady
  \/ handleResume
  \/ toggleTimer
  \/ Tick

SpecPlayer == Init /\ [][NextPlayer]_vars

\* C40: since the page was loaded, new Spotify.Player has been called at most
\* once - exactly once if playerCreatedRef is set and not at all otherwise -
\* whether the SDK became ready before or after a token was there, and
\* whatever the token changed to afterwards.
AtMostOnePlayer ==
  playersCreated = IF playerCreatedRef THEN 1 ELSE 0

\* after a reload the SDK is ready and the token has changed as often as it
\* may, its effects done: one player
OnePlayerAfterLateToken ==
  /\ pageLoads = 1
  /\ sdkReady
  /\ tokenChanges = MaxTokenChanges
  /\ token = "token2"
  /\ tokenRef = "token2"
  /\ ~effectsPending
  /\ playersCreated = 1

====
